---- MODULE Spec2Model ----
(***************************************************************************)
(* Verification model of the InkWash artifact acquisition and caching      *)
(* pipeline: the archive Extractor, the BinaryCache, the Downloader and    *)
(* the Installer.  Each component has its own specification over the       *)
(* shared variables; the variables of the other components stay at their   *)
(* initial values.                                                         *)
(*                                                                         *)
(* Strings that the code inspects character by character (paths) are       *)
(* sequences of one-character strings, so that strings.HasPrefix and       *)
(* filepath.Clean are computed as the Go library computes them.            *)
(***************************************************************************)
EXTENDS Integers, Sequences, FiniteSets, TLC

VARIABLES
    \* ---- Extractor (src/unnamed/part_009) ----
    archivePath,   \* the suffix of the archive's file name
    archive,       \* the entries of the archive, in archive order
    destPath,      \* the destination directory handed to Extract
    fs,            \* the file system: a set of [path, kind] nodes
    wrote,         \* per entry, the paths the entry created or replaced
    xi,            \* number of entries the extraction loop has visited
    xpc,           \* position of Extract: "start", "loop", "done"
    xerr,          \* what Extract returned: "" (nil) or the error text
    \* ---- BinaryCache (src/internal/cache/binary.go) ----
    cache,         \* [Builds, TotalSize, dirs, saved]: bc.metadata in memory,
                   \* the build directories and metadata.json on disk
    maxBuilds,     \* bc.maxBuilds
    now,           \* the clock read by time.Now()
    faults,        \* number of I/O failures the environment may still cause
    ret,           \* the last BinaryCache call: its arguments and its result
    \* ---- Downloader (src/internal/download/downloader.go) ----
    resource,      \* the bytes the URL serves
    server,        \* how the server answers HEAD, GET and Range requests
    numChunks,     \* d.numChunks
    dl,            \* Download: position, strategy, result, stop and error
                   \* channels, the unread body of a single connection
    chunks,        \* the chunk tasks: position and unread response body
    progress,      \* the shared Progress struct
    reporter,      \* reportProgress: position and the copy for the callback
    files,         \* the destination file and the part files
    dcalls,        \* the snapshots the progress callback has received
    \* ---- Installer (src/internal/server/metrics.go) ----
    inst,          \* Install: position, step, arguments, result
    reports,       \* the Progress values onProgress has received
    calls,         \* the operations Install has run, in order, with outcome
    site,          \* what exists under the server path, and the bin/ tree
    registry,      \* the Registry: servers in memory and in registry.json
    remote,        \* the artifact host: build listing, archive content,
                   \* and how it answers requests
    \* ---- concurrent callers ----
    tasks,         \* goroutines calling one BinaryCache at the same time
    runs,          \* Install runs of installBinary that overlap in time
    tmp            \* os.TempDir(): the directories under it and their files

extractVars == <<archivePath, archive, destPath, fs, wrote, xi, xpc, xerr>>

cacheVars == <<cache, maxBuilds, now, ret>>

downloadVars == <<resource, server, numChunks, dl, chunks, progress, reporter,
                  files, dcalls>>

installVars == <<inst, reports, calls, site, registry, remote>>

otherVars == <<tasks, runs, tmp>>

vars == <<extractVars, otherVars, cacheVars, faults, downloadVars, installVars>>

\* what an action of one component leaves unchanged
notExtract == <<otherVars, cacheVars, faults, downloadVars, installVars>>
notCache == <<extractVars, otherVars, downloadVars, installVars>>
notDownload == <<extractVars, otherVars, cacheVars, faults, installVars>>
notDownloadCallback == <<extractVars, otherVars, cacheVars, faults, inst, calls, site,
                         registry, remote>>
notDownloadFault == <<extractVars, otherVars, cacheVars, installVars>>

(***************************************************************************)
(* Bounds                                                                  *)
(***************************************************************************)
MaxEntries == 2      \* entries per archive
MaxK == 2            \* maxBuilds ranges over 1..MaxK
NumBuilds == MaxK + 1    \* build numbers 1..NumBuilds
MaxLoaded == MaxK + 1    \* entries of a metadata.json found at start-up
MaxTime == 2         \* the clock runs from 0 to MaxTime
MaxFaults == 1       \* I/O failures per behaviour
MaxSize == 3         \* bytes of the downloaded resource
MaxTicks == 2        \* progress callbacks per download

(***************************************************************************)
(* Strings and paths                                                       *)
(***************************************************************************)
Last(s) == s[Len(s)]
Front(s) == SubSeq(s, 1, Len(s) - 1)

\* strings.HasPrefix(s, prefix)
HasPrefix(s, prefix) ==
    /\ Len(prefix) <= Len(s)
    /\ SubSeq(s, 1, Len(prefix)) = prefix

\* the elements of a path string between its separators, empty ones included
RECURSIVE SplitFrom(_, _, _, _)
SplitFrom(s, i, cur, acc) ==
    IF i > Len(s) THEN Append(acc, cur)
    ELSE IF s[i] = "/" THEN SplitFrom(s, i + 1, <<>>, Append(acc, cur))
    ELSE SplitFrom(s, i + 1, Append(cur, s[i]), acc)

SplitPath(s) == SplitFrom(s, 1, <<>>, <<>>)

\* filepath.Clean on the elements: "" and "." dropped, ".." removes the
\* element before it (at the root it is dropped, in a relative path kept)
RECURSIVE CleanElems(_, _, _, _)
CleanElems(elems, i, rooted, out) ==
    IF i > Len(elems) THEN out
    ELSE LET c == elems[i] IN
         IF c = <<>> \/ c = <<".">> THEN CleanElems(elems, i + 1, rooted, out)
         ELSE IF c = <<".", ".">> THEN
              IF out # <<>> /\ Last(out) # <<".", ".">>
                  THEN CleanElems(elems, i + 1, rooted, Front(out))
              ELSE IF rooted THEN CleanElems(elems, i + 1, rooted, out)
              ELSE CleanElems(elems, i + 1, rooted, Append(out, c))
         ELSE CleanElems(elems, i + 1, rooted, Append(out, c))

RECURSIVE JoinElems(_)
JoinElems(elems) ==
    IF elems = <<>> THEN <<>>
    ELSE IF Len(elems) = 1 THEN elems[1]
    ELSE elems[1] \o <<"/">> \o JoinElems(Tail(elems))

IsRooted(s) == s # <<>> /\ s[1] = "/"

\* the elements of filepath.Clean(s)
Elems(s) == CleanElems(SplitPath(s), 1, IsRooted(s), <<>>)

\* filepath.Clean(s)
Clean(s) ==
    LET body == JoinElems(Elems(s)) IN
    IF IsRooted(s) THEN <<"/">> \o body
    ELSE IF body = <<>> THEN <<".">> ELSE body

\* filepath.Join(dir, name): the non-empty arguments joined by "/" and cleaned
Join(dir, name) ==
    IF name = <<>> THEN Clean(dir)
    ELSE IF dir = <<>> THEN Clean(name)
    ELSE Clean(dir \o <<"/">> \o name)

\* filepath.Dir(p) of a clean path
Dir(p) ==
    LET e == Elems(p) IN
    IF e = <<>> THEN Clean(p)
    ELSE IF IsRooted(p) THEN <<"/">> \o JoinElems(Front(e))
    ELSE IF Len(e) = 1 THEN <<".">> ELSE JoinElems(Front(e))

\* p and every directory above it
RECURSIVE UpTo(_)
UpTo(p) == IF Dir(p) = p THEN {p} ELSE {p} \cup UpTo(Dir(p))

\* p is root itself or lies below root (element-wise containment)
Within(root, p) ==
    LET r == Elems(root)
        e == Elems(p)
    IN  /\ IsRooted(root) = IsRooted(p)
        /\ Len(r) <= Len(e)
        /\ SubSeq(e, 1, Len(r)) = r

(***************************************************************************)
(* File system                                                             *)
(***************************************************************************)
Paths(f) == {n.path : n \in f}
KindAt(f, p) == IF p \in Paths(f) THEN (CHOOSE n \in f : n.path = p).kind ELSE "none"
Below(f, p) == {n \in f : n.path # p /\ Within(p, n.path)}

\* a node is [path, kind, target]; target is the link name of a symlink
NoTarget == <<>>
TargetAt(f, p) == (CHOOSE n \in f : n.path = p).target

\* the rooted path of a sequence of elements
PathOf(elems) == <<"/">> \o JoinElems(elems)

\* one step of path resolution, as the system calls do it: cur holds the
\* elements of the directory reached, rest the elements still to walk; ".."
\* goes up, and a symlink is replaced by its target, at most k times
WalkStep(f, cur, rest, k) ==
    LET q == Append(cur, rest[1]) IN
    IF rest[1] = <<".", ".">>
        THEN [cur |-> IF cur = <<>> THEN cur ELSE Front(cur),
              rest |-> Tail(rest), k |-> k]
    ELSE IF KindAt(f, PathOf(q)) = "symlink" /\ k > 0
        THEN LET t == TargetAt(f, PathOf(q)) IN
             [cur |-> IF IsRooted(t) THEN <<>> ELSE cur,
              rest |-> Elems(t) \o Tail(rest), k |-> k - 1]
    ELSE [cur |-> q, rest |-> Tail(rest), k |-> k]

RECURSIVE Walk(_, _)
Walk(f, at) ==
    IF at.rest = <<>> THEN at.cur ELSE Walk(f, WalkStep(f, at.cur, at.rest, at.k))

\* where the clean rooted path p leads when every symlink is followed
\* (os.Stat, os.OpenFile); a tree without symlinks leads nowhere else
Real(f, p) ==
    IF \A n \in f : n.kind # "symlink" THEN p
    ELSE PathOf(Walk(f, [cur |-> <<>>, rest |-> Elems(p), k |-> Cardinality(f)]))

\* the same when the last element is not followed (os.Lstat, os.Remove,
\* os.Symlink, mkdir)
NoFollow(f, p) ==
    IF p = <<"/">> THEN p ELSE Join(Real(f, Dir(p)), Last(Elems(p)))

Stat(f, p) == KindAt(f, Real(f, p))
Lstat(f, p) == KindAt(f, NoFollow(f, p))

\* os.MkdirAll(p): fails when p or a directory above it leads to something
\* that is not a directory, or is a symlink to nothing; a symlink to a
\* directory is walked through
MkdirAllFails(f, p) ==
    /\ Stat(f, p) # "dir"
    /\ \E q \in UpTo(p) : Lstat(f, q) # "none" /\ Stat(f, q) # "dir"
MkdirAllNew(f, p) == {q \in UpTo(Real(f, p)) : KindAt(f, q) = "none"}
MkdirAll(f, p) ==
    f \cup {[path |-> q, kind |-> "dir", target |-> NoTarget] :
               q \in MkdirAllNew(f, p)}

\* os.OpenFile(p, O_WRONLY|O_CREATE|O_TRUNC): symlinks are followed, the
\* last one too, so the file is made or truncated where p leads; fails on a
\* directory and when the directory of that place is missing
OpenedAt(f, p) == Real(f, p)
OpenFileFails(f, p) ==
    LET r == OpenedAt(f, p) IN
    KindAt(f, r) \in {"dir", "symlink"} \/ KindAt(f, Dir(r)) # "dir"
OpenFile(f, p) ==
    LET r == OpenedAt(f, p) IN
    {n \in f : n.path # r}
        \cup {[path |-> r, kind |-> "file", target |-> NoTarget]}

\* os.Remove(p): removes a file, a symlink or an empty directory
OsRemove(f, p) ==
    LET r == NoFollow(f, p) IN
    IF Below(f, r) = {} THEN {n \in f : n.path # r} ELSE f

\* os.Symlink(target, p): the target is stored as it is; fails when p exists
SymlinkFails(f, p) ==
    LET r == NoFollow(f, p) IN
    KindAt(f, r) # "none" \/ KindAt(f, Dir(r)) # "dir"
Symlink(f, p, target) ==
    f \cup {[path |-> NoFollow(f, p), kind |-> "symlink", target |-> target]}

(***************************************************************************)
(* Extractor                                                               *)
(***************************************************************************)
\* the path an entry is written to
EntryPath(dest, name) == Join(dest, name)

\* the security check of the three format handlers
IllegalPath(dest, name) ==
    ~HasPrefix(Clean(EntryPath(dest, name)), Clean(dest))

Rejected(f) == [fs |-> f, wrote |-> {}, err |-> "illegal file path", stop |-> TRUE]
Failed(f, w, e) == [fs |-> f, wrote |-> w, err |-> e, stop |-> TRUE]
Written(f, w) == [fs |-> f, wrote |-> w, err |-> "", stop |-> FALSE]

\* a directory entry or a regular-file entry, as extract7z and extractZip
\* write it (and extractTarXz its TypeDir and TypeReg entries)
WriteDir(f, path) ==
    IF MkdirAllFails(f, path) THEN Failed(f, {}, "failed to create directory")
    ELSE Written(MkdirAll(f, path), MkdirAllNew(f, path))

WriteFile(f, path) ==
    IF MkdirAllFails(f, Dir(path))
        THEN Failed(f, {}, "failed to create parent directory")
    ELSE LET g == MkdirAll(f, Dir(path))
             w == MkdirAllNew(f, Dir(path))
         IN  IF OpenFileFails(g, path)
                 THEN Failed(g, w, "failed to create output file")
             ELSE Written(OpenFile(g, path), w \cup {OpenedAt(g, path)})

WriteSymlink(f, path, link) ==
    IF MkdirAllFails(f, Dir(path))
        THEN Failed(f, {}, "failed to create parent directory")
    ELSE LET g == MkdirAll(f, Dir(path))
             w == MkdirAllNew(f, Dir(path))
             h == OsRemove(g, path)
             r == IF h # g THEN {NoFollow(g, path)} ELSE {}
         IN  IF SymlinkFails(h, path)
                 THEN Failed(h, w \cup r, "failed to create symlink")
             ELSE Written(Symlink(h, path, link), w \cup {NoFollow(h, path)})

\* extract7z passing over an illegal entry instead of returning the error
extract7zSkipsIllegal(f, dest, ent) ==
    LET path == EntryPath(dest, ent.Name) IN
    IF IllegalPath(dest, ent.Name) THEN Written(f, {})
    ELSE IF ent.Kind = "dir" THEN WriteDir(f, path)
    ELSE WriteFile(f, path)

\* one iteration of the loop of extract7z
extract7z(f, dest, ent) ==
    LET path == EntryPath(dest, ent.Name) IN
    IF IllegalPath(dest, ent.Name) THEN Rejected(f)
    ELSE IF ent.Kind = "dir" THEN WriteDir(f, path)
    ELSE WriteFile(f, path)

\* one iteration of the loop of extractZip
extractZip(f, dest, ent) ==
    LET path == EntryPath(dest, ent.Name) IN
    IF IllegalPath(dest, ent.Name) THEN Rejected(f)
    ELSE IF ent.Kind = "dir" THEN WriteDir(f, path)
    ELSE WriteFile(f, path)

\* one iteration of the loop of extractTarXz; an entry that is neither a
\* directory, a regular file nor a symlink is passed over
extractTarXz(f, dest, ent) ==
    LET path == EntryPath(dest, ent.Name) IN
    IF IllegalPath(dest, ent.Name) THEN Rejected(f)
    ELSE IF ent.Kind = "dir" THEN WriteDir(f, path)
    ELSE IF ent.Kind = "file" THEN WriteFile(f, path)
    ELSE IF ent.Kind = "symlink" THEN WriteSymlink(f, path, ent.Link)
    ELSE Written(f, {})

\* the handler Extract dispatches to, by the suffix of archivePath
Handler(suffix, f, dest, ent) ==
    IF suffix = ".7z" THEN extract7z(f, dest, ent)
    ELSE IF suffix = ".tar.xz" THEN extractTarXz(f, dest, ent)
    ELSE extractZip(f, dest, ent)

Suffixes == {".7z", ".tar.xz", ".tar.gz", ".zip", ".rar"}

\* entry names of the archives, and the destinations
NameF == <<"f">>
NameDF == <<"d", "/", "f">>
NameSibling == <<".", ".", "/", "x", "e", "/", "f">>
NameOther == <<".", ".", "/", "y", "/", "f">>
NameBack == <<"d", "/", ".", ".", "/", "f">>
Names == {NameF, NameDF, NameSibling, NameOther, NameBack}

DestTX == <<"/", "t", "/", "x">>
DestX == <<"/", "x", "/">>
Dests == {DestTX, DestX}

Kinds(suffix) ==
    IF suffix = ".tar.xz" THEN {"dir", "file", "symlink", "other"}
    ELSE {"dir", "file"}

\* the link name of the symlink entries: a directory above the destination
LinkOutside == <<"/", "t">>

\* a symlink entry in the place of the directory of NameDF
NameD == <<"d">>
LinkEntries(suffix) ==
    IF "symlink" \in Kinds(suffix)
        THEN {[Name |-> NameD, Kind |-> "symlink", Link |-> LinkOutside]}
    ELSE {}

Entries(suffix) ==
    {[Name |-> n, Kind |-> k,
      Link |-> IF k = "symlink" THEN LinkOutside ELSE NoTarget] :
        n \in Names, k \in Kinds(suffix)} \cup LinkEntries(suffix)

Archives(suffix) ==
    UNION {[1..n -> Entries(suffix)] : n \in 0..MaxEntries}

\* the directories above the destination exist before Extract runs
InitFs(dest) ==
    {[path |-> q, kind |-> "dir", target |-> NoTarget] :
        q \in UpTo(Dir(Clean(dest)))}

ExtractInit ==
    /\ archivePath \in Suffixes
    /\ archive \in Archives(archivePath)
    /\ destPath \in Dests
    /\ fs = InitFs(destPath)
    /\ wrote = [i \in 1..Len(archive) |-> {}]
    /\ xi = 0
    /\ xpc = "start"
    /\ xerr = ""

\* the dispatch with .tar.gz handed to a handler that reads the archive
DispatchGzExtracts(suffix) ==
    IF suffix \in {".7z", ".tar.xz", ".tar.gz", ".zip"} THEN ""
    ELSE "unsupported archive format"

\* the dispatch of Extract on the suffix of archivePath: "" when a handler
\* reads the archive, else the error returned without reading it
Dispatch(suffix) ==
    IF suffix \in {".7z", ".tar.xz", ".zip"} THEN ""
    ELSE IF suffix = ".tar.gz" THEN "tar.gz extraction not implemented yet"
    ELSE "unsupported archive format"

\* Extract: create the destination, then dispatch on the suffix
Extract ==
    /\ xpc = "start"
    /\ fs' = MkdirAll(fs, Clean(destPath))
    /\ IF Dispatch(archivePath) = ""
           THEN xpc' = "loop" /\ xerr' = xerr
       ELSE xpc' = "done" /\ xerr' = Dispatch(archivePath)
    /\ UNCHANGED <<archivePath, archive, destPath, wrote, xi>>
    /\ UNCHANGED notExtract

\* the next entry of the archive
ExtractEntry ==
    /\ xpc = "loop"
    /\ xi < Len(archive)
    /\ LET r == Handler(archivePath, fs, destPath, archive[xi + 1]) IN
        /\ fs' = r.fs
        /\ wrote' = [wrote EXCEPT ![xi + 1] = r.wrote]
        /\ xi' = xi + 1
        /\ xerr' = r.err
        /\ xpc' = IF r.stop THEN "done" ELSE "loop"
    /\ UNCHANGED <<archivePath, archive, destPath>>
    /\ UNCHANGED notExtract

\* the end of the archive: Extract returns nil
ExtractReturn ==
    /\ xpc = "loop"
    /\ xi = Len(archive)
    /\ xpc' = "done"
    /\ UNCHANGED <<archivePath, archive, destPath, fs, wrote, xi, xerr>>
    /\ UNCHANGED notExtract

ExtractNext == Extract \/ ExtractEntry \/ ExtractReturn

(***************************************************************************)
(* Extractor: claims                                                       *)
(***************************************************************************)
\* the entries the loop has visited
Visited == 1..xi

\* C1: every entry whose canonical destination path is neither destPath nor
\* below it is rejected with an error before anything is written for it,
\* and Extract creates no file or directory outside destPath.
C1_NoWriteOutsideDest ==
    /\ \A i \in Visited :
          ~Within(destPath, EntryPath(destPath, archive[i].Name)) =>
              /\ wrote[i] = {}
              /\ xerr = "illegal file path"
              /\ xi = i
    /\ \A n \in fs : n \in InitFs(destPath) \/ Within(destPath, n.path)

\* C37: while a tar.xz archive is extracted, no regular file is made or
\* written outside destPath, also when an earlier entry of the archive is a
\* symlink whose target lies outside destPath and a later file entry's path
\* goes through that symlink or is that symlink.
C37_NoFileBytesOutsideDest ==
    archivePath = ".tar.xz" =>
        \A n \in fs : n.kind = "file" => Within(destPath, n.path)

\* C2: when an entry fails the containment check of the handler, Extract
\* returns the error at that entry: nothing is written for that entry and
\* no later entry of the archive is visited or written.
C2_AbortAtIllegalEntry ==
    \A i \in Visited :
        IllegalPath(destPath, archive[i].Name) =>
            /\ xi = i
            /\ xpc = "done"
            /\ xerr = "illegal file path"
            /\ \A j \in i..Len(archive) : wrote[j] = {}

\* an entry was written, the next one failed the check, and a writable entry
\* follows it in the archive
C2_Witness ==
    /\ xpc = "done"
    /\ xerr = "illegal file path"
    /\ xi < Len(archive)
    /\ IllegalPath(destPath, archive[xi].Name)
    /\ ~IllegalPath(destPath, archive[xi + 1].Name)
    /\ archive[xi + 1].Kind = "file"



NoDir == [dir |-> FALSE, extracted |-> FALSE, tree |-> {}]
EmptyDir == [dir |-> TRUE, extracted |-> FALSE, tree |-> {}]
Extracted(tree) == [dir |-> TRUE, extracted |-> TRUE, tree |-> tree]
BuildNumbers == 1..NumBuilds
ArchiveSize(n) == n

\* the extracted tree of build n: one file, whose content names the build;
\* a node of a tree is [name, kind, data], name being the path below the root
TreeOf(n) == {[name |-> <<"FXServer">>, kind |-> "file", data |-> n]}

FileNames(tree) == {f.name : f \in tree}

\* copyDir(src, dst): the files of src are written over those of dst
copyDir(dst, src) == {f \in dst : f.name \notin FileNames(src)} \cup src

RECURSIVE SumSize(_)
SumSize(rows) == IF rows = <<>> THEN 0 ELSE rows[1].Size + SumSize(Tail(rows))

Numbers(rows) == {rows[i].Number : i \in 1..Len(rows)}

\* index of the first row of build n, 0 when there is none
FirstIndex(rows, n) ==
    IF n \in Numbers(rows)
        THEN CHOOSE i \in 1..Len(rows) :
                /\ rows[i].Number = n
                /\ \A j \in 1..(i - 1) : rows[j].Number # n
    ELSE 0

RemoveAt(rows, i) == SubSeq(rows, 1, i - 1) \o SubSeq(rows, i + 1, Len(rows))

Ok(c) == [c |-> c, err |-> ""]
Err(c, e) == [c |-> c, err |-> e]

Metadata(c) == [Builds |-> c.Builds, TotalSize |-> c.TotalSize]

\* Has(buildNumber)
Has(c, n) == n \in Numbers(c.Builds)

\* the os.Stat of cacheRoot/n/extracted in Get
ExtractedExists(c, n) == c.dirs[n].extracted

saveMetadata(c, fail) ==
    IF fail = "save" THEN Err(c, "failed to write metadata")
    ELSE Ok([c EXCEPT !.saved = Metadata(c)])

\* Remove(buildNumber)
Remove(c, n, fail) ==
    LET i == FirstIndex(c.Builds, n)
        buildSize == IF i = 0 THEN 0 ELSE c.Builds[i].Size
        c1 == IF i = 0 THEN c ELSE [c EXCEPT !.Builds = RemoveAt(c.Builds, i)]
    IN  IF fail = "removeAll" THEN Err(c1, "failed to remove build directory")
        ELSE saveMetadata([c1 EXCEPT !.dirs[n] = NoDir,
                                     !.TotalSize = c.TotalSize - buildSize], fail)

\* sort.Slice on bc.metadata.Builds with less = LastUsed.Before: for a slice
\* of at most 12 rows the library sorts by insertion, moving a row left
\* while it is used strictly before its left neighbour
RECURSIVE SinkLeft(_, _)
SinkLeft(rows, j) ==
    IF j > 1 /\ rows[j].LastUsed < rows[j - 1].LastUsed
        THEN SinkLeft([rows EXCEPT ![j - 1] = rows[j], ![j] = rows[j - 1]], j - 1)
    ELSE rows

RECURSIVE InsertionSort(_, _)
InsertionSort(rows, i) ==
    IF i > Len(rows) THEN rows ELSE InsertionSort(SinkLeft(rows, i), i + 1)

SortByLastUsed(rows) == InsertionSort(rows, 2)

\* the loop of enforceLimits: Remove the first row, toRemove times
RECURSIVE RemoveOldest(_, _, _)
RemoveOldest(c, toRemove, fail) ==
    IF toRemove = 0 THEN Ok(c)
    ELSE LET r == Remove(c, c.Builds[1].Number, fail) IN
         IF r.err # "" THEN r ELSE RemoveOldest(r.c, toRemove - 1, fail)

\* enforceLimits removing a single row whatever the excess
enforceLimitsRemovesOne(c, max, fail) ==
    IF Len(c.Builds) <= max THEN Ok(c)
    ELSE RemoveOldest([c EXCEPT !.Builds = SortByLastUsed(c.Builds)], 1, fail)

\* enforceLimits with the rows sorted newest first
enforceLimitsNewestFirst(c, max, fail) ==
    IF Len(c.Builds) <= max THEN Ok(c)
    ELSE LET s == SortByLastUsed(c.Builds)
             r == [i \in 1..Len(s) |-> s[Len(s) + 1 - i]]
         IN  RemoveOldest([c EXCEPT !.Builds = r], Len(c.Builds) - max, fail)

\* enforceLimits(): nothing to do within the limit; otherwise the rows are
\* sorted oldest first and the excess removed from the front
enforceLimits(c, max, fail) ==
    IF Len(c.Builds) <= max THEN Ok(c)
    ELSE RemoveOldest([c EXCEPT !.Builds = SortByLastUsed(c.Builds)],
                      Len(c.Builds) - max, fail)

\* updateLastUsed(buildNumber): the result of saveMetadata is dropped
updateLastUsed(c, n, t, fail) ==
    LET i == FirstIndex(c.Builds, n) IN
    IF i = 0 THEN c
    ELSE saveMetadata([c EXCEPT !.Builds[i].LastUsed = t], fail).c

\* Get(buildNumber): [c, err, path]; the path cacheRoot/n/extracted is n
Get(c, n, t, fail) ==
    IF ~ExtractedExists(c, n)
        THEN [c |-> c, err |-> "not in cache", path |-> 0]
    ELSE [c |-> updateLastUsed(c, n, t, fail), err |-> "", path |-> n]

\* the move of the extracted tree into cacheRoot/n/extracted: os.Rename
\* succeeds onto a missing or empty directory of the same device, otherwise
\* copyDir writes the tree over the directory
MoveExtracted(c, n, tree, fail) ==
    LET old == IF ExtractedExists(c, n) THEN c.dirs[n].tree ELSE {} IN
    IF old = {} /\ fail # "rename"
        THEN Ok([c EXCEPT !.dirs[n] = Extracted(tree)])
    ELSE IF fail = "copyDir"
        THEN Err([c EXCEPT !.dirs[n] = Extracted(old)],
                 "failed to move extracted files")
    ELSE Ok([c EXCEPT !.dirs[n] = Extracted(copyDir(old, tree))])

\* Add(build, archivePath, extractedPath), called at time t
Add(c, max, n, tree, t, fail) ==
    IF fail = "mkdir" THEN Err(c, "failed to create build directory")
    ELSE LET c1 == IF c.dirs[n].dir THEN c ELSE [c EXCEPT !.dirs[n] = EmptyDir]
         IN
         IF fail = "copyFile" THEN Err(c1, "failed to copy archive")
         ELSE LET m == MoveExtracted(c1, n, tree, fail) IN
              IF m.err # "" THEN m
              ELSE IF fail = "stat" THEN Err(m.c, "failed to stat archive")
              ELSE LET cacheBuild == [Number |-> n, Size |-> ArchiveSize(n),
                                      LastUsed |-> t]
                       c2 == [m.c EXCEPT
                                !.Builds = Append(m.c.Builds, cacheBuild),
                                !.TotalSize = m.c.TotalSize + ArchiveSize(n)]
                       e == enforceLimits(c2, max, fail)
                   IN  IF e.err # "" THEN e ELSE saveMetadata(e.c, fail)

\* the loop of Clear over the rows with index i and above
RECURSIVE ClearDirs(_, _, _)
ClearDirs(c, i, fail) ==
    IF i > Len(c.Builds) THEN Ok(c)
    ELSE IF fail = "removeAll" THEN Err(c, "failed to remove build")
    ELSE ClearDirs([c EXCEPT !.dirs[c.Builds[i].Number] = NoDir], i + 1, fail)

\* Clear()
Clear(c, fail) ==
    LET r == ClearDirs(c, 1, fail) IN
    IF r.err # "" THEN r
    ELSE saveMetadata([r.c EXCEPT !.Builds = <<>>, !.TotalSize = 0], fail)

\* loadMetadata at NewBinaryCache: a metadata.json left by earlier runs, its
\* rows in the order of their build numbers and every build directory in
\* place; maxBuilds of this run may be smaller than the number of rows
LoadedRows ==
    UNION {{rows \in [1..k -> [Number : BuildNumbers, Size : BuildNumbers,
                               LastUsed : 0..1]] :
               \A i \in 1..k : rows[i].Number = i /\ rows[i].Size = ArchiveSize(i)}
           : k \in 0..MaxLoaded}

\* the cache whose metadata.json holds rows, over the build numbers ns
loadMetadataOf(rows, ns) ==
    [Builds |-> rows,
     TotalSize |-> SumSize(rows),
     dirs |-> [n \in ns |->
                 IF n \in Numbers(rows) THEN Extracted(TreeOf(n)) ELSE NoDir],
     saved |-> [Builds |-> rows, TotalSize |-> SumSize(rows)]]

loadMetadata(rows) == loadMetadataOf(rows, BuildNumbers)

EmptyCache == loadMetadata(<<>>)

\* rows: the number of metadata rows when the call was made
NoCall == [op |-> "none", n |-> 0, err |-> "", path |-> 0, rows |-> 0]

Call(op, n, r, path) ==
    [op |-> op, n |-> n, err |-> r.err, path |-> path, rows |-> Len(cache.Builds)]

FailPoints(op) ==
    IF faults = 0 THEN (IF op = "Add" THEN {"none", "rename"} ELSE {"none"})
    ELSE IF op = "Add" THEN {"none", "mkdir", "copyFile", "rename", "copyDir",
                             "stat", "removeAll", "save"}
    ELSE IF op = "Get" THEN {"none", "save"}
    ELSE {"none", "removeAll", "save"}

\* whether the failure point was reached
Faulted(c, r, fail) ==
    IF fail = "none" \/ fail = "rename" THEN 0
    ELSE IF r.err # "" \/ r.c.saved # Metadata(r.c) THEN 1 ELSE 0

CacheInit ==
    /\ maxBuilds \in 1..MaxK
    /\ \E rows \in LoadedRows : cache = loadMetadata(rows)
    /\ now = 1
    /\ ret = NoCall

\* time passes between two readings of the clock
Tick ==
    /\ now < MaxTime
    /\ now' = now + 1
    /\ UNCHANGED <<cache, maxBuilds, faults, ret>>
    /\ UNCHANGED notCache

CallAdd ==
    \E n \in BuildNumbers, fail \in FailPoints("Add") :
        LET r == Add(cache, maxBuilds, n, TreeOf(n), now, fail) IN
        /\ fail # "none" => (r.err # "" \/ fail = "rename")
        /\ cache' = r.c
        /\ faults' = faults - Faulted(cache, r, fail)
        /\ ret' = Call("Add", n, r, 0)
        /\ UNCHANGED <<maxBuilds, now>>
        /\ UNCHANGED notCache

CallGet ==
    \E n \in BuildNumbers, fail \in FailPoints("Get") :
        LET r == Get(cache, n, now, fail) IN
        /\ fail # "none" => r.c.saved # Metadata(r.c)
        /\ cache' = r.c
        /\ faults' = faults - Faulted(cache, r, fail)
        /\ ret' = Call("Get", n, r, r.path)
        /\ UNCHANGED <<maxBuilds, now>>
        /\ UNCHANGED notCache

CallRemove ==
    \E n \in BuildNumbers, fail \in FailPoints("Remove") :
        LET r == Remove(cache, n, fail) IN
        /\ fail # "none" => r.err # ""
        /\ cache' = r.c
        /\ faults' = faults - Faulted(cache, r, fail)
        /\ ret' = Call("Remove", n, r, 0)
        /\ UNCHANGED <<maxBuilds, now>>
        /\ UNCHANGED notCache

CallClear ==
    \E fail \in FailPoints("Clear") :
        LET r == Clear(cache, fail) IN
        /\ fail # "none" => r.err # ""
        /\ cache' = r.c
        /\ faults' = faults - Faulted(cache, r, fail)
        /\ ret' = Call("Clear", 0, r, 0)
        /\ UNCHANGED <<maxBuilds, now>>
        /\ UNCHANGED notCache

CacheNext == Tick \/ CallAdd \/ CallGet \/ CallRemove \/ CallClear

\* ---- a cache built with the default limit ----
\* NewBinaryCache with maxBuilds <= 0
DefaultMaxBuilds == 3

EvictionBuilds == 1..(DefaultMaxBuilds + 1)

\* the cache is full: DefaultMaxBuilds builds, each used at time 0 or 1
EvictionInit ==
    /\ maxBuilds = DefaultMaxBuilds
    /\ \E rows \in [1..DefaultMaxBuilds ->
                       [Number : EvictionBuilds, Size : EvictionBuilds,
                        LastUsed : 0..1]] :
          /\ \A i \in 1..DefaultMaxBuilds :
                rows[i].Number = i /\ rows[i].Size = ArchiveSize(i)
          /\ cache = loadMetadataOf(rows, EvictionBuilds)
    /\ now = 1
    /\ ret = NoCall

\* Add of a build that is not in the cache
AddNewBuild ==
    \E n \in EvictionBuilds \ Numbers(cache.Builds) :
        LET r == Add(cache, maxBuilds, n, TreeOf(n), now, "none") IN
        /\ cache' = r.c
        /\ ret' = Call("Add", n, r, 0)
        /\ UNCHANGED <<maxBuilds, now, faults>>
        /\ UNCHANGED notCache

GetBuild ==
    \E n \in EvictionBuilds :
        LET r == Get(cache, n, now, "none") IN
        /\ cache' = r.c
        /\ ret' = Call("Get", n, r, r.path)
        /\ UNCHANGED <<maxBuilds, now, faults>>
        /\ UNCHANGED notCache

EvictionNext == Tick \/ AddNewBuild \/ GetBuild

(***************************************************************************)
(* BinaryCache: claims                                                     *)
(***************************************************************************)
\* the step is a call of op (a Tick leaves ret and cache as they are)
Called(op) == ret'.op = op /\ (ret' # ret \/ cache' # cache)

Distinct(rows) == Cardinality(Numbers(rows)) = Len(rows)

\* C3: after an Add that returned success the metadata holds at most
\* maxBuilds rows, also when the metadata loaded at start-up held more.
C3_AtMostMaxBuildsAfterAdd ==
    (ret.op = "Add" /\ ret.err = "") => Len(cache.Builds) <= maxBuilds

\* an Add that started with more than maxBuilds rows and returned success
C3_Witness ==
    /\ ret.op = "Add" /\ ret.err = ""
    /\ ret.rows > maxBuilds
    /\ Len(cache.Builds) = maxBuilds

\* C4: in every reachable state TotalSize is the sum of Size over Builds.
C4_TotalSizeIsSum == cache.TotalSize = SumSize(cache.Builds)

\* C5: an Add of a new build to a cache of maxBuilds distinct builds leaves
\* exactly maxBuilds rows; the row removed is one whose LastUsed was oldest
\* when the eviction ran, and it is not the build just added.
C5_EvictsOldest ==
    [][(/\ Called("Add") /\ ret'.err = ""
        /\ Len(cache.Builds) = maxBuilds
        /\ Distinct(cache.Builds)
        /\ ret'.n \notin Numbers(cache.Builds))
       => (/\ Len(cache'.Builds) = maxBuilds
           /\ ret'.n \in Numbers(cache'.Builds)
           /\ \E i \in 1..Len(cache.Builds) :
                 /\ Numbers(cache'.Builds) =
                      (Numbers(cache.Builds) \ {cache.Builds[i].Number})
                          \cup {ret'.n}
                 /\ cache.Builds[i].LastUsed <= now
                 /\ \A j \in 1..Len(cache.Builds) :
                       cache.Builds[i].LastUsed <= cache.Builds[j].LastUsed)
      ]_vars

\* the (maxBuilds + 1)-th distinct build was added to a cache of two
C5_Witness ==
    /\ ret.op = "Add" /\ ret.err = ""
    /\ maxBuilds = 2 /\ ret.rows = 2
    /\ Distinct(cache.Builds) /\ Len(cache.Builds) = 2
    /\ cache.Builds[2].Number = ret.n
    /\ cache.Builds[1].LastUsed < cache.Builds[2].LastUsed

\* C6: a Get of build n right after an Add of build n that returned success
\* returns the path cacheRoot/n/extracted without error, and the tree there
\* is the extracted tree handed to Add.
C6_GetAfterAdd ==
    [][(/\ ret.op = "Add" /\ ret.err = ""
        /\ Called("Get") /\ ret'.n = ret.n)
       => (/\ ret'.err = ""
           /\ ret'.path = ret.n
           /\ cache'.dirs[ret.n].extracted
           /\ cache'.dirs[ret.n].tree = TreeOf(ret.n))
      ]_vars

\* C7: a Get that returns a path finds a row of the build, sets that row's
\* LastUsed to the current time, changes no other row and persists the
\* metadata; a Get that returns an error leaves the metadata unchanged.
C7_GetFrame ==
    [][Called("Get") =>
        IF ret'.err = ""
            THEN LET i == FirstIndex(cache.Builds, ret'.n) IN
                 /\ Has(cache, ret'.n)
                 /\ Len(cache'.Builds) = Len(cache.Builds)
                 /\ cache'.Builds[i] = [cache.Builds[i] EXCEPT !.LastUsed = now]
                 /\ \A j \in 1..Len(cache.Builds) :
                       j # i => cache'.Builds[j] = cache.Builds[j]
                 /\ cache'.TotalSize = cache.TotalSize
                 /\ cache'.saved = Metadata(cache')
        ELSE /\ Metadata(cache') = Metadata(cache)
             /\ cache'.saved = cache.saved
      ]_vars

\* the rows before the eviction of an Add: the old rows and the new row
Inserted == Append(cache.Builds, [Number |-> ret'.n, Size |-> ArchiveSize(ret'.n),
                                  LastUsed |-> now])

\* C27: eviction orders the rows by LastUsed with a stable sort: when an Add
\* evicts, a row that is removed was used no later than every row that
\* stays; of two rows with the same LastUsed the one inserted later is not
\* removed while the earlier one stays; and the rows that stay are in the
\* order in which they were inserted.
C27_StableEviction ==
    [][(/\ Called("Add") /\ ret'.err = ""
        /\ Distinct(cache.Builds)
        /\ ret'.n \notin Numbers(cache.Builds))
       => LET old == Inserted
              stays(i) == old[i].Number \in Numbers(cache'.Builds)
          IN  /\ \A i, j \in 1..Len(old) :
                    (~stays(i) /\ stays(j)) =>
                        /\ old[i].LastUsed <= old[j].LastUsed
                        /\ old[i].LastUsed = old[j].LastUsed => i < j
              /\ \A i, j \in 1..Len(old) :
                    (i < j /\ stays(i) /\ stays(j)) =>
                        FirstIndex(cache'.Builds, old[i].Number)
                            < FirstIndex(cache'.Builds, old[j].Number)
      ]_vars

\* C32: after any sequence of BinaryCache operations that returned success,
\* Has(n) is true exactly when Get(n) returns a path: build n has a row in
\* the metadata if and only if cacheRoot/n/extracted exists.
C32_HasIffGet ==
    \A n \in BuildNumbers :
        Has(cache, n) <=> Get(cache, n, now, "none").err = ""

\* C33: in every reachable state a build number occurs at most once in
\* Builds, also after a second Add of a build that is cached; so after a
\* Remove(n) that returned success there is no row of n.
C33_OneRowPerBuild ==
    /\ Distinct(cache.Builds)
    /\ (ret.op = "Remove" /\ ret.err = "") => ~Has(cache, ret.n)

\* C34: when Remove(n) or Clear() returns an error because a build directory
\* could not be deleted, Builds and TotalSize in memory are what they were
\* before the call.
C34_FailedRemovalKeepsMetadata ==
    [][((Called("Remove") \/ Called("Clear"))
            /\ ret'.err \in {"failed to remove build directory",
                             "failed to remove build"})
       => Metadata(cache') = Metadata(cache)
      ]_vars


(***************************************************************************)
(* Downloader                                                              *)
(*                                                                         *)
(* The resource is the byte sequence 1, 2, ..., n, so that equal files     *)
(* hold the same bytes at the same offsets.  The server is described by    *)
(* what the code asks of it: whether a size can be learnt before the       *)
(* download (known), whether HEAD advertises Accept-Ranges: bytes          *)
(* (ranges), and how it answers a Range header (mode): "strict" serves a   *)
(* byte range with 206 and rejects a malformed one with 416, "lenient"     *)
(* serves a byte range with 206 and ignores a malformed header (200 and    *)
(* the whole body), "ignores" ignores every Range header.  Whether the GET *)
(* response of a streaming download carries a Content-Length is chosen     *)
(* when the GET is made.                                                   *)
(***************************************************************************)
\* float64: x/0 for x > 0, and 0/0
PosInf == 1000000
NaN == -1

\* a <= b on float64
Leq(a, b) == a # NaN /\ b # NaN /\ a <= b

\* the callback installBinary hands to Download:
\* 0.30 + float64(p.DownloadedBytes) / float64(p.TotalBytes) * 0.15
DownloadProgress(p) ==
    IF p.TotalBytes = 0
        THEN (IF p.DownloadedBytes = 0 THEN NaN ELSE PosInf)
    ELSE 300 + (p.DownloadedBytes * 150) \div p.TotalBytes

\* NewDownloader: the chunk count used when none is given, and the count the
\* installer asks for
DefaultChunks == 3

Resource(n) == [i \in 1..n |-> i]

Servers == [known : BOOLEAN, ranges : BOOLEAN,
            mode : {"strict", "lenient", "ignores"}]

ChunkIds == 0..(numChunks - 1)

RECURSIVE SumTo(_, _)
SumTo(f, i) == IF i < 0 THEN 0 ELSE f[i] + SumTo(f, i - 1)

\* the sum of the per-chunk counters, as reportProgress adds them up
SumChunks(cp) == SumTo(cp, Cardinality(DOMAIN cp) - 1)

\* a Go slice of n int64 zeros, indexed from 0
Zeros(n) == [i \in 0..(n - 1) |-> 0]

\* getFileSize: the size, or 0 when neither HEAD nor the Range probe tells it
getFileSize(srv, res) == IF srv.known /\ Len(res) > 0 THEN Len(res) ELSE 0

\* supportsRangeRequests
supportsRangeRequests(srv) == srv.ranges

\* the choice without the test totalSize == 0
StrategyNoStreaming(srv, res) ==
    IF ~supportsRangeRequests(srv) THEN "single" ELSE "parallel"

\* the strategy Download chooses
Strategy(srv, res) ==
    IF getFileSize(srv, res) = 0 THEN "streaming"
    ELSE IF ~supportsRangeRequests(srv) THEN "single"
    ELSE "parallel"

\* the byte range of chunk chunkID in downloadParallel
ChunkStart(chunkID, total, n) == chunkID * (total \div n)
ChunkEnd(chunkID, total, n) ==
    IF chunkID = n - 1 THEN total - 1
    ELSE ChunkStart(chunkID, total, n) + (total \div n) - 1

\* the response to GET with Range: bytes=start-end
RangeResponse(srv, res, start, end) ==
    IF srv.mode = "ignores" THEN [status |-> 200, body |-> res]
    ELSE IF start <= end /\ start < Len(res)
        THEN [status |-> 206,
              body |-> SubSeq(res, start + 1,
                              (IF end < Len(res) THEN end ELSE Len(res) - 1) + 1)]
    ELSE IF srv.mode = "lenient" /\ end < start
        THEN [status |-> 200, body |-> res]
    ELSE [status |-> 416, body |-> <<>>]

\* the counter assigned instead of added to
AddProgressOverwrites(cp, chunkID, n) == [cp EXCEPT ![chunkID] = n]

\* progress.ChunkProgress[chunkID] += int64(n)
AddProgress(cp, chunkID, n) == [cp EXCEPT ![chunkID] = cp[chunkID] + n]

\* the part of reportProgress that runs under the mutex at a tick: the
\* snapshot handed to the callback
Snapshot(p) ==
    [TotalBytes |-> p.TotalBytes, DownloadedBytes |-> SumChunks(p.ChunkProgress)]

\* progressCopy := *progress copies the struct but not the counters: the
\* ChunkProgress of the copy is a slice header onto the array the chunk
\* tasks add to, so the callback reads the counters as they are now
SharedArray == progress.ChunkProgress

NoFile == [exists |-> FALSE, data |-> <<>>]
File(data) == [exists |-> TRUE, data |-> data]

\* mergeChunks: the part files appended in index order, each removed after
RECURSIVE Concat(_, _, _)
Concat(parts, i, n) ==
    IF i >= n THEN <<>> ELSE parts[i].data \o Concat(parts, i + 1, n)

\* the merge that appends the part files from the last to the first
RECURSIVE ConcatDown(_, _)
ConcatDown(parts, i) ==
    IF i < 0 THEN <<>> ELSE parts[i].data \o ConcatDown(parts, i - 1)

mergeChunksLastFirst(parts, n) == File(ConcatDown(parts, n - 1))

mergeChunks(parts, n) == File(Concat(parts, 0, n))

\* the destination file the single-connection path leaves: the body of the
\* plain GET, written read by read
RECURSIVE ReadAll(_, _, _)
ReadAll(body, file, buf) ==
    IF body = <<>> THEN file
    ELSE LET k == IF Len(body) < buf THEN Len(body) ELSE buf IN
         ReadAll(SubSeq(body, k + 1, Len(body)), file \o SubSeq(body, 1, k), buf)

SingleFile(res) == File(ReadAll(res, <<>>, 1))

IdleChunk == [pc |-> "idle", body |-> <<>>]

DownloadIdle ==
    /\ resource = <<>>
    /\ server = [known |-> FALSE, ranges |-> FALSE, mode |-> "strict"]
    /\ numChunks = 1
    /\ dl = [pc |-> "idle", strategy |-> "", err |-> "", stop |-> FALSE,
             errChan |-> <<>>, body |-> <<>>, nilCallback |-> FALSE]
    /\ chunks = [i \in 0..0 |-> IdleChunk]
    /\ progress = [TotalBytes |-> 0, DownloadedBytes |-> 0,
                   ChunkProgress |-> Zeros(1)]
    /\ reporter = [pc |-> "none", copy |-> [TotalBytes |-> 0, DownloadedBytes |-> 0]]
    /\ files = [dest |-> NoFile, parts |-> [i \in 0..0 |-> NoFile]]
    /\ dcalls = <<>>

\* a call of Download(url, destPath, onProgress)
DownloadInit ==
    /\ \E n \in 0..MaxSize : resource = Resource(n)
    /\ server \in Servers
    /\ numChunks \in 1..DefaultChunks
    /\ \E nil \in BOOLEAN :
          dl = [pc |-> "start", strategy |-> "", err |-> "", stop |-> FALSE,
                errChan |-> <<>>, body |-> <<>>, nilCallback |-> nil]
    /\ chunks = [i \in ChunkIds |-> IdleChunk]
    /\ progress = [TotalBytes |-> 0, DownloadedBytes |-> 0,
                   ChunkProgress |-> Zeros(1)]
    /\ reporter = [pc |-> "none", copy |-> [TotalBytes |-> 0, DownloadedBytes |-> 0]]
    /\ files = [dest |-> NoFile, parts |-> [i \in ChunkIds |-> NoFile]]
    /\ dcalls = <<>>

\* the callback receives a snapshot; the callback of the installer turns it
\* into a progress value and hands that to onProgress
Deliver(snap) ==
    /\ dcalls' = Append(dcalls, snap)
    /\ reports' = IF inst.pc = "idle" THEN reports
                  ELSE Append(reports, DownloadProgress(snap))

\* Download: the size, the range probe and the choice of the strategy
Download ==
    /\ dl.pc = "start"
    /\ \E length \in BOOLEAN :
       LET total == getFileSize(server, resource)
           how == Strategy(server, resource)
       IN  /\ (how # "streaming" => length)
           /\ dl' = [dl EXCEPT !.pc = how, !.strategy = how,
                               !.body = IF how = "parallel" THEN <<>> ELSE resource]
           /\ progress' =
                 [TotalBytes |-> IF how = "streaming"
                                     THEN (IF length THEN Len(resource) ELSE 0)
                                     ELSE total,
                  DownloadedBytes |-> 0,
                  ChunkProgress |-> IF how = "parallel" THEN Zeros(numChunks)
                                    ELSE Zeros(1)]
           /\ files' = [files EXCEPT !.dest = IF how = "parallel" THEN NoFile
                                              ELSE File(<<>>)]
           /\ reporter' = [reporter EXCEPT !.pc =
                 IF how # "parallel" THEN "none"
                 ELSE IF dl.nilCallback THEN "stopped" ELSE "select"]
           /\ chunks' = [i \in ChunkIds |->
                 IF how = "parallel" THEN [pc |-> "start", body |-> <<>>]
                 ELSE IdleChunk]
    /\ UNCHANGED <<resource, server, numChunks, dcalls>>
    /\ UNCHANGED notDownload

\* Download returns the error of getFileSize, when the HEAD request fails,
\* or that of supportsRangeRequests, when the size is known and the second
\* HEAD request fails
DownloadFail ==
    /\ dl.pc = "start"
    /\ faults > 0
    /\ \E e \in {"failed to get file size", "range probe failed"} :
          /\ e = "range probe failed" => getFileSize(server, resource) > 0
          /\ dl' = [dl EXCEPT !.pc = "done", !.err = e]
    /\ faults' = faults - 1
    /\ UNCHANGED <<resource, server, numChunks, chunks, progress, reporter,
                   files, dcalls>>
    /\ UNCHANGED notDownloadFault

\* downloadChunk: the request of chunk i and the status of its response
ChunkRequest ==
    \E i \in ChunkIds :
        /\ dl.pc = "parallel"
        /\ chunks[i].pc = "start"
        /\ LET resp == RangeResponse(server, resource,
                           ChunkStart(i, progress.TotalBytes, numChunks),
                           ChunkEnd(i, progress.TotalBytes, numChunks))
           IN  IF resp.status \in {200, 206}
                   THEN /\ chunks' = [chunks EXCEPT ![i] =
                                         [pc |-> "reading", body |-> resp.body]]
                        /\ files' = [files EXCEPT !.parts[i] = File(<<>>)]
                        /\ dl' = dl
               ELSE /\ chunks' = [chunks EXCEPT ![i].pc = "sending"]
                    /\ UNCHANGED <<dl, files>>
        /\ UNCHANGED <<resource, server, numChunks, progress, reporter, dcalls>>
        /\ UNCHANGED notDownload

\* downloadChunk: one Read of k bytes, written to the part file and counted
\* under the mutex; at the end of the body the chunk task is done. The
\* notification on progressChan is a select with a default case, which is
\* ready whether the buffer has a free place or not, and nothing receives
\* from progressChan: the step has no guard on it
ChunkRead ==
    \E i \in ChunkIds :
        /\ dl.pc = "parallel"
        /\ chunks[i].pc = "reading"
        /\ IF chunks[i].body = <<>>
               THEN /\ chunks' = [chunks EXCEPT ![i].pc = "done"]
                    /\ UNCHANGED <<files, progress>>
           ELSE \E k \in 1..Len(chunks[i].body) :
                    /\ chunks' = [chunks EXCEPT ![i].body =
                                     SubSeq(chunks[i].body, k + 1, Len(chunks[i].body))]
                    /\ files' = [files EXCEPT !.parts[i].data =
                                     files.parts[i].data \o SubSeq(chunks[i].body, 1, k)]
                    /\ progress' = [progress EXCEPT !.ChunkProgress =
                                       AddProgress(progress.ChunkProgress, i, k)]
        /\ UNCHANGED <<resource, server, numChunks, dl, reporter, dcalls>>
        /\ UNCHANGED notDownload

\* downloadChunk: a Read that fails; downloadChunk returns the error
ChunkFail ==
    \E i \in ChunkIds :
        /\ dl.pc = "parallel"
        /\ chunks[i].pc = "reading"
        /\ chunks' = [chunks EXCEPT ![i] = [pc |-> "sending", body |-> <<>>]]
        /\ faults > 0
        /\ faults' = faults - 1
        /\ UNCHANGED <<resource, server, numChunks, dl, progress, reporter, files,
                       dcalls>>
        /\ UNCHANGED notDownloadFault

\* a channel of errors without a buffer
ErrChanUnbuffered(n) == 0

\* errChan := make(chan error, d.numChunks)
ErrChanCap(n) == n

\* the chunk task sends the error of downloadChunk on errChan, which nobody
\* receives from before the join: the send needs a free place in the buffer;
\* then the task ends (the deferred wg.Done)
ChunkSendError ==
    \E i \in ChunkIds :
        /\ dl.pc = "parallel"
        /\ chunks[i].pc = "sending"
        /\ Len(dl.errChan) < ErrChanCap(numChunks)
        /\ chunks' = [chunks EXCEPT ![i].pc = "failed"]
        /\ dl' = [dl EXCEPT !.errChan = Append(dl.errChan, i)]
        /\ UNCHANGED <<resource, server, numChunks, progress, reporter, files,
                       dcalls>>
        /\ UNCHANGED notDownload

\* the join that closes the stop channel only before a merge
ParallelJoinStopsOnSuccess ==
    /\ dl.pc = "parallel"
    /\ \A i \in ChunkIds : chunks[i].pc \in {"done", "failed"}
    /\ IF dl.errChan # <<>>
           THEN /\ dl' = [dl EXCEPT !.pc = "done",
                                    !.err = "chunk failed", !.errChan = <<>>]
                /\ files' = files
       ELSE /\ dl' = [dl EXCEPT !.pc = "done", !.stop = TRUE]
            /\ files' = [dest |-> mergeChunks(files.parts, numChunks),
                         parts |-> [i \in ChunkIds |-> NoFile]]
    /\ chunks' = [i \in ChunkIds |-> IdleChunk]
    /\ UNCHANGED <<resource, server, numChunks, progress, reporter, dcalls>>
    /\ UNCHANGED notDownload

\* downloadParallel after wg.Wait(), when every chunk task has ended: stop
\* the reporter, return the first error, or merge the part files
ParallelJoin ==
    /\ dl.pc = "parallel"
    /\ \A i \in ChunkIds : chunks[i].pc \in {"done", "failed"}
    /\ IF dl.errChan # <<>>
           THEN /\ dl' = [dl EXCEPT !.pc = "done", !.stop = TRUE,
                                    !.err = "chunk failed", !.errChan = <<>>]
                /\ files' = files
       ELSE /\ dl' = [dl EXCEPT !.pc = "done", !.stop = TRUE]
            /\ files' = [dest |-> mergeChunks(files.parts, numChunks),
                         parts |-> [i \in ChunkIds |-> NoFile]]
    /\ chunks' = [i \in ChunkIds |-> IdleChunk]
    /\ UNCHANGED <<resource, server, numChunks, progress, reporter, dcalls>>
    /\ UNCHANGED notDownload

\* reportProgress: a tick of the ticker; the sum is taken and the copy made
\* while the mutex is held
ReporterTick ==
    /\ reporter.pc = "select"
    /\ Len(dcalls) < MaxTicks
    /\ progress' = [progress EXCEPT
                      !.DownloadedBytes = Snapshot(progress).DownloadedBytes]
    /\ reporter' = [pc |-> "callback", copy |-> Snapshot(progress)]
    /\ UNCHANGED <<resource, server, numChunks, dl, chunks, files, dcalls>>
    /\ UNCHANGED notDownload

\* reportProgress: the callback runs, outside the mutex
ReporterCallback ==
    /\ reporter.pc = "callback"
    /\ Deliver(reporter.copy)
    /\ reporter' = [reporter EXCEPT !.pc = "select"]
    /\ UNCHANGED <<resource, server, numChunks, dl, chunks, progress, files>>
    /\ UNCHANGED notDownloadCallback

\* reportProgress: the stop channel is closed and the select takes it
ReporterStop ==
    /\ reporter.pc = "select"
    /\ dl.stop
    /\ reporter' = [reporter EXCEPT !.pc = "stopped"]
    /\ UNCHANGED <<resource, server, numChunks, dl, chunks, progress, files, dcalls>>
    /\ UNCHANGED notDownload

\* downloadSingle and downloadStreaming: one Read of k bytes; the progress is
\* reported when 100ms have passed since the last report
SequentialRead ==
    /\ dl.pc \in {"single", "streaming"}
    /\ dl.body # <<>>
    /\ \E k \in 1..Len(dl.body), report \in BOOLEAN :
          LET cp == AddProgress(progress.ChunkProgress, 0, k)
              p == [progress EXCEPT !.ChunkProgress = cp,
                                    !.DownloadedBytes = cp[0]]
          IN  /\ dl' = [dl EXCEPT !.body = SubSeq(dl.body, k + 1, Len(dl.body))]
              /\ files' = [files EXCEPT !.dest.data =
                              files.dest.data \o SubSeq(dl.body, 1, k)]
              /\ progress' = p
              /\ IF report /\ ~dl.nilCallback /\ Len(dcalls) < MaxTicks
                     THEN Deliver([TotalBytes |-> p.TotalBytes,
                                   DownloadedBytes |-> p.DownloadedBytes])
                          /\ UNCHANGED notDownloadCallback
                 ELSE UNCHANGED dcalls /\ UNCHANGED notDownload
    /\ UNCHANGED <<resource, server, numChunks, chunks, reporter>>

\* downloadSingle at io.EOF
SingleReturn ==
    /\ dl.pc = "single"
    /\ dl.body = <<>>
    /\ dl' = [dl EXCEPT !.pc = "done"]
    /\ UNCHANGED <<resource, server, numChunks, chunks, progress, reporter,
                   files, dcalls>>
    /\ UNCHANGED notDownload

\* downloadStreaming at io.EOF: the final progress update
StreamingReturn ==
    /\ dl.pc = "streaming"
    /\ dl.body = <<>>
    /\ dl' = [dl EXCEPT !.pc = "done"]
    /\ progress' = [progress EXCEPT !.TotalBytes = progress.DownloadedBytes]
    /\ IF dl.nilCallback
           THEN UNCHANGED dcalls /\ UNCHANGED notDownload
       ELSE Deliver([TotalBytes |-> progress.DownloadedBytes,
                     DownloadedBytes |-> progress.DownloadedBytes])
            /\ UNCHANGED notDownloadCallback
    /\ UNCHANGED <<resource, server, numChunks, chunks, reporter, files>>

\* downloadSingle and downloadStreaming: a Read that fails
SequentialFail ==
    /\ dl.pc \in {"single", "streaming"}
    /\ dl' = [dl EXCEPT !.pc = "done", !.err = "read failed"]
    /\ faults > 0
    /\ faults' = faults - 1
    /\ UNCHANGED <<resource, server, numChunks, chunks, progress, reporter,
                   files, dcalls>>
    /\ UNCHANGED notDownloadFault

DownloadNext ==
    \/ Download
    \/ DownloadFail
    \/ ChunkRequest
    \/ ChunkRead
    \/ ChunkFail
    \/ ChunkSendError
    \/ ParallelJoin
    \/ ReporterTick
    \/ ReporterCallback
    \/ ReporterStop
    \/ SequentialRead
    \/ SingleReturn
    \/ StreamingReturn
    \/ SequentialFail

(***************************************************************************)
(* Downloader: claims                                                      *)
(***************************************************************************)
\* C8: a parallel download of totalSize > 0 bytes in N >= 1 chunks that
\* returns success leaves a destination file of exactly totalSize bytes,
\* identical to the file of the single-connection path.
C8_ParallelEqualsSingle ==
    (dl.pc = "done" /\ dl.strategy = "parallel" /\ dl.err = "") =>
        /\ files.dest.exists
        /\ Len(files.dest.data) = progress.TotalBytes
        /\ files.dest = SingleFile(resource)

\* C9: the downloadedBytes of successive callbacks of a parallel download
\* never decrease, and each is the sum of the per-chunk counters as they
\* were when the reporter held the mutex at its tick.
C9_ReporterMonotone ==
    [][dl.strategy = "parallel" =>
        /\ (reporter.pc = "select" /\ reporter'.pc = "callback") =>
              /\ reporter'.copy.DownloadedBytes = SumChunks(progress.ChunkProgress)
              /\ progress'.ChunkProgress = progress.ChunkProgress
        /\ (dcalls' # dcalls) =>
              /\ dcalls' = Append(dcalls, reporter.copy)
              /\ dcalls # <<>> =>
                    Last(dcalls).DownloadedBytes <= reporter.copy.DownloadedBytes
      ]_vars

\* two callbacks were delivered, bytes arrived between their ticks, and the
\* chunks were still reading at the second
C9_Witness ==
    /\ dl.strategy = "parallel"
    /\ numChunks >= 2
    /\ Len(dcalls) >= 2
    /\ dcalls[1].DownloadedBytes > 0
    /\ dcalls[1].DownloadedBytes < dcalls[2].DownloadedBytes
    /\ dcalls[2].DownloadedBytes < SumChunks(progress.ChunkProgress)


\* C21: in a parallel download, as soon as one chunk task has failed the
\* operation is aborted: no other chunk task requests, reads or writes
\* anything more before Download returns the error, and nothing is merged.
C21_AbortAtFirstChunkError ==
    [][(dl.pc = "parallel" /\ dl.errChan # <<>>) =>
          /\ chunks' = chunks \/ dl'.pc = "done"
          /\ files'.parts = files.parts
          /\ dl'.pc = "done" => (dl'.err # "" /\ ~files'.dest.exists)
      ]_vars

\* every chunk's HTTP read has ended: no chunk task is before or in its read
ReadsEnded ==
    /\ dl.pc = "parallel"
    /\ \A i \in ChunkIds : chunks[i].pc \in {"sending", "done", "failed"}

\* C38: a parallel download terminates once every chunk's read has ended,
\* for every N and every interleaving: a chunk task that has an error to
\* send finds a free place in errChan, the notification on progressChan
\* never blocks, and the main task passes the barrier and returns.
C38_ParallelTerminates ==
    /\ [](\A i \in ChunkIds :
            chunks[i].pc = "sending" => ENABLED ChunkSendError)
    /\ [](dl.pc = "parallel" => Len(dl.errChan) <= numChunks)
    /\ ReadsEnded ~> (dl.pc = "done")

\* every chunk task of a download of two or more chunks has sent an error
\* and has ended
C38_Witness ==
    /\ ReadsEnded
    /\ numChunks >= 2
    /\ Len(dl.errChan) = numChunks

\* the bytes of the resource in the range that chunk i asks for
RequestedBytes(i) ==
    SubSeq(resource, ChunkStart(i, progress.TotalBytes, numChunks) + 1,
           ChunkEnd(i, progress.TotalBytes, numChunks) + 1)

\* C39: when a parallel download returns success, every part file i held
\* exactly the bytes of the range that chunk i asked for: a response that
\* is not the partial content of that range, such as a 200 with the full
\* body, makes the download fail instead of being merged.
C39_PartsHoldTheirRanges ==
    [][(dl.pc = "parallel" /\ dl'.pc = "done" /\ dl'.err = "") =>
          \A i \in ChunkIds : files.parts[i].data = RequestedBytes(i)
      ]_vars

C23_ReporterStops ==
    /\ [][/\ (~dl.stop /\ dl'.stop) =>
                /\ dl.pc = "parallel" /\ dl'.pc = "done"
                /\ \A i \in ChunkIds : chunks[i].pc \in {"done", "failed"}
          /\ dl.stop => dl'.stop
         ]_vars
    /\ [](dl.pc = "done" /\ dl.strategy = "parallel" => dl.stop)
    /\ (reporter.pc \in {"select", "callback"}) ~> (reporter.pc = "stopped")

\* the reporter has made a callback and has stopped after a download in
\* which a chunk failed
C23_Witness ==
    /\ dl.strategy = "parallel"
    /\ dl.pc = "done"
    /\ dl.err # ""
    /\ dcalls # <<>>
    /\ reporter.pc = "stopped"

\* C26: the shared progress is read and written only under the mutex, and a
\* snapshot handed to the callback is not changed by the chunk tasks after
\* it was taken: while the callback holds the snapshot of a parallel
\* download, the per-chunk values it can read sum to the snapshot's
\* DownloadedBytes.
C26_SnapshotIsFrozen ==
    (reporter.pc = "callback" /\ dl.strategy = "parallel") =>
        SumChunks(SharedArray) = reporter.copy.DownloadedBytes

\* C28: Download uses one strategy per call: streaming when neither the HEAD
\* Content-Length nor the Content-Range of the Range 0-0 probe gives a size,
\* single-connection when the size is known and the server does not
\* advertise Accept-Ranges: bytes, parallel otherwise; and Download never
\* fails because the size could not be determined.
C28_StrategyBySize ==
    dl.pc \notin {"idle", "start"} =>
        /\ dl.err # "failed to get file size"
        /\ dl.strategy # "" =>
              dl.strategy = IF ~(server.known /\ Len(resource) > 0)
                                THEN "streaming"
                            ELSE IF ~server.ranges THEN "single"
                            ELSE "parallel"

\* C29: for every size above 0 and every number of chunks the ranges the
\* chunk tasks request are well formed (start <= end), begin at 0, follow
\* one another without gap or overlap and end at the last byte, the last
\* range taking the remainder of the division.
C29_RangesPartition ==
    dl.pc = "parallel" =>
        LET total == Len(resource)
            n == numChunks
        IN  /\ ChunkStart(0, total, n) = 0
            /\ ChunkEnd(n - 1, total, n) = total - 1
            /\ \A i \in ChunkIds :
                  /\ ChunkStart(i, total, n) <= ChunkEnd(i, total, n)
                  /\ i < n - 1 =>
                        ChunkEnd(i, total, n) + 1 = ChunkStart(i + 1, total, n)

\* C30: a Download of a resource of zero bytes that meets no I/O failure
\* returns nil and leaves an empty destination file, and the last snapshot
\* the callback received has DownloadedBytes = TotalBytes = 0; with one
\* chunk the parallel download requests the single range 0..totalSize-1 and
\* leaves the file that the single-connection download leaves, the bytes of
\* the resource.
C30_EmptyResourceAndOneChunk ==
    /\ (Len(resource) = 0 /\ dl.pc = "done" /\ faults = MaxFaults) =>
          /\ dl.err = ""
          /\ files.dest = File(<<>>)
          /\ ~dl.nilCallback =>
                /\ dcalls # <<>>
                /\ dcalls[Len(dcalls)] = [TotalBytes |-> 0, DownloadedBytes |-> 0]
    /\ (numChunks = 1 /\ dl.strategy = "parallel") =>
          /\ ChunkStart(0, Len(resource), numChunks) = 0
          /\ ChunkEnd(0, Len(resource), numChunks) = Len(resource) - 1
          /\ (dl.pc = "done" /\ dl.err = "") => files.dest = File(resource)
    /\ (dl.strategy = "single" /\ dl.pc = "done" /\ dl.err = "") =>
          files.dest = File(resource)

\* a resource of MaxSize bytes was downloaded as one chunk and merged
C30_Witness ==
    /\ numChunks = 1 /\ dl.strategy = "parallel"
    /\ dl.pc = "done" /\ dl.err = ""
    /\ Len(resource) = MaxSize
    /\ files.dest = File(resource)

\* C35: once Download has returned, the progress callback of that call is
\* not invoked again.
C35_NoCallbackAfterReturn ==
    [][dl.pc = "done" => dcalls' = dcalls]_vars

(***************************************************************************)
(* Installer                                                               *)
(*                                                                         *)
(* Install is called with a non-nil onProgress.  A progress value is a     *)
(* float64; it is kept in thousandths, with PosInf and NaN for the results *)
(* of a division by zero.  An error is the chain of its messages, the      *)
(* outermost wrapper first; Nil is no error.  calls records every          *)
(* operation Install has run, in the order they returned, with "ok",       *)
(* "error" or "miss".  A tree is a set of nodes [name, kind, data], name   *)
(* being the path below the root and kind one of "file", "dir", "symlink"  *)
(* (target present) and "broken symlink" (target missing).                 *)
(***************************************************************************)
Nil == <<>>

Node(name, kind, data) == [name |-> name, kind |-> kind, data |-> data]

\* os.ReadDir(root/dir): the entries directly under dir
ReadDir(tree, dir) ==
    {f \in tree : Len(f.name) = Len(dir) + 1 /\ HasPrefix(f.name, dir)}

\* the nodes below dir, named relative to it
Rel(tree, dir) ==
    {Node(SubSeq(f.name, Len(dir) + 1, Len(f.name)), f.kind, f.data) :
        f \in {g \in tree : Len(g.name) > Len(dir) /\ HasPrefix(g.name, dir)}}

\* findBinaryDir with a nested directory accepted when it holds one entry
findBinaryDirOneEntry(tree) ==
    LET entries == ReadDir(tree, <<>>) IN
    IF Cardinality(entries) = 1
           /\ (\A e \in entries : e.kind = "dir")
           /\ (\A e \in entries : Cardinality(ReadDir(tree, e.name)) >= 1)
        THEN (CHOOSE e \in entries : TRUE).name
    ELSE <<>>

\* findBinaryDir: the directory to copy from, relative to extractPath; the
\* single root entry when it is a directory with more than one entry
findBinaryDir(tree) ==
    LET entries == ReadDir(tree, <<>>) IN
    IF Cardinality(entries) = 1
           /\ (\A e \in entries : e.kind = "dir")
           /\ (\A e \in entries : Cardinality(ReadDir(tree, e.name)) > 1)
        THEN (CHOOSE e \in entries : TRUE).name
    ELSE <<>>

\* the byte order of the names that occur in archives
NameOrder == <<"FXServer", "alpine", "citizen", "lib">>

Rank(c) == CHOOSE i \in 1..Len(NameOrder) : NameOrder[i] = c

\* filepath.Walk visits p before q: lexical order, a directory before its
\* entries
RECURSIVE Before(_, _)
Before(p, q) ==
    IF p = <<>> THEN q # <<>>
    ELSE IF q = <<>> THEN FALSE
    ELSE IF p[1] = q[1] THEN Before(Tail(p), Tail(q))
    ELSE Rank(p[1]) < Rank(q[1])

\* copyDir of the installer: directories are made, everything else is read
\* with os.ReadFile, which follows a symlink and fails when its target is
\* missing; the walk stops at the first error
copyDirWalk(tree) ==
    LET bad == {f \in tree : f.kind = "broken symlink"}
        Copied(f) == IF f.kind = "dir" THEN f ELSE Node(f.name, "file", f.data)
    IN  IF bad = {} THEN [tree |-> {Copied(f) : f \in tree}, err |-> Nil]
        ELSE LET first == CHOOSE f \in bad :
                              \A g \in bad : g = f \/ Before(f.name, g.name)
             IN  [tree |-> {Copied(f) :
                               f \in {g \in tree : Before(g.name, first.name)}},
                  err |-> <<"open: no such file or directory">>]

\* copyDirSkipBrokenSymlinks from the directory src of the tree: a symlink
\* whose target is missing is passed over, any other is made again
copyDirSkipBrokenSymlinks(tree, src) ==
    {f \in Rel(tree, src) : f.kind # "broken symlink"}

\* archive contents: the binary at the root or inside a wrapper directory
FlatTree(n) == {Node(<<"FXServer">>, "file", n)}
FlatLinkTree(n) == FlatTree(n) \cup {Node(<<"lib">>, "broken symlink", 0)}
WrappedTree(n) ==
    {Node(<<"alpine">>, "dir", 0), Node(<<"alpine", "FXServer">>, "file", n),
     Node(<<"alpine", "lib">>, "broken symlink", 0)}
WrappedOneTree(n) ==
    {Node(<<"alpine">>, "dir", 0), Node(<<"alpine", "FXServer">>, "file", n)}
WrappedTwoTree(n) ==
    {Node(<<"alpine">>, "dir", 0), Node(<<"alpine", "FXServer">>, "file", n),
     Node(<<"alpine", "citizen">>, "file", n)}
WrappedEmptyTree == {Node(<<"alpine">>, "dir", 0)}
SeveralTree(n) ==
    {Node(<<"FXServer">>, "file", n), Node(<<"alpine">>, "dir", 0),
     Node(<<"alpine", "citizen">>, "file", n),
     Node(<<"alpine", "lib">>, "symlink", n)}
PayloadTrees(n) ==
    {FlatTree(n), FlatLinkTree(n), WrappedTree(n), WrappedOneTree(n),
     WrappedTwoTree(n), WrappedEmptyTree, SeveralTree(n)}

\* Registry.Exists and Registry.Add: a second server of the same name is
\* refused; the server is appended in memory before registry.json is saved
RegistryExists(reg, name) ==
    \E i \in 1..Len(reg.Servers) : reg.Servers[i].Name = name

\* Registry.Add that records the default port
RegistryAddDefaultPort(reg, srv, saveFails) ==
    LET added == Append(reg.Servers, [srv EXCEPT !.Port = 30120]) IN
    IF RegistryExists(reg, srv.Name)
        THEN [reg |-> reg, err |-> <<"server already exists">>]
    ELSE IF saveFails
        THEN [reg |-> [reg EXCEPT !.Servers = added],
              err |-> <<"failed to write registry">>]
    ELSE [reg |-> [Servers |-> added, saved |-> added], err |-> Nil]

\* Registry.Add that does not look at the result of the save
RegistryAddUnsaved(reg, srv, saveFails) ==
    LET added == Append(reg.Servers, srv) IN
    IF RegistryExists(reg, srv.Name)
        THEN [reg |-> reg, err |-> <<"server already exists">>]
    ELSE IF saveFails THEN [reg |-> [reg EXCEPT !.Servers = added], err |-> Nil]
    ELSE [reg |-> [Servers |-> added, saved |-> added], err |-> Nil]

RegistryAdd(reg, srv, saveFails) ==
    IF RegistryExists(reg, srv.Name)
        THEN [reg |-> reg, err |-> <<"server already exists">>]
    ELSE LET added == Append(reg.Servers, srv) IN
         IF saveFails
             THEN [reg |-> [reg EXCEPT !.Servers = added],
                   err |-> <<"failed to write registry">>]
         ELSE [reg |-> [Servers |-> added, saved |-> added], err |-> Nil]

\* the search of the listing that takes the first build there is
FindBuildFirst(listing, n) == listing # {}

\* installBinary's search of the fetched listing for the requested number
FindBuild(listing, n) == n \in listing

\* validateInputs: the name, the registry, then the install path
validateInputs(name, reg, writable) ==
    IF name = "" THEN <<"server name cannot be empty">>
    ELSE IF RegistryExists(reg, name) THEN <<"server already exists">>
    ELSE IF ~writable THEN <<"install path is not writable">>
    ELSE Nil

\* createBasicStructure: resources/, cache/ and logs/, up to the first
\* os.MkdirAll that fails (failAt = 0: none fails)
BasicStructure == <<"resources", "cache", "logs">>

createBasicStructure(dirs, failAt) ==
    IF failAt = 0
        THEN [dirs |-> dirs \cup {BasicStructure[i] : i \in 1..Len(BasicStructure)},
              err |-> Nil]
    ELSE [dirs |-> dirs \cup {BasicStructure[i] : i \in 1..(failAt - 1)},
          err |-> <<"mkdir failed">>]

\* cloneServerData that returns the failure of git
cloneServerDataStrict(dirs, git, failAt) ==
    IF git = "failed" THEN [dirs |-> dirs, err |-> <<"git clone failed">>]
    ELSE IF git = "cloned, copy failed"
        THEN [dirs |-> dirs, err |-> <<"failed to copy resources">>]
    ELSE [dirs |-> dirs \cup {"resources"}, err |-> Nil]

\* cloneServerData: git clone, then the copy of resources/; when git fails,
\* createBasicStructure instead
cloneServerData(dirs, git, failAt) ==
    IF git = "failed" THEN createBasicStructure(dirs, failAt)
    ELSE IF git = "cloned, copy failed"
        THEN [dirs |-> dirs, err |-> <<"failed to copy resources">>]
    ELSE [dirs |-> dirs \cup {"resources"}, err |-> Nil]

\* the steps 4 to 8 with the launch script written before server.cfg
TailStepsScriptFirst ==
    << [progress |-> 570, op |-> "cloneServerData", makes |-> "resources",
        err |-> "failed to clone server-data"],
       [progress |-> 625, op |-> "metadataManager.Save",
        makes |-> "metadata.json", err |-> "failed to save metadata"],
       [progress |-> 750, op |-> "GenerateLaunchScript",
        makes |-> "launch script", err |-> "failed to create launch script"],
       [progress |-> 875, op |-> "GenerateServerConfig",
        makes |-> "server.cfg", err |-> "failed to generate config"],
       [progress |-> 1000, op |-> "registry.Add", makes |-> "",
        err |-> "failed to register server"] >>

\* steps 4 to 8 of Install: the progress reported, the operation, what it
\* leaves under the server path, and the message that wraps its error
TailSteps ==
    << [progress |-> 570, op |-> "cloneServerData", makes |-> "resources",
        err |-> "failed to clone server-data"],
       [progress |-> 625, op |-> "metadataManager.Save",
        makes |-> "metadata.json", err |-> "failed to save metadata"],
       [progress |-> 750, op |-> "GenerateServerConfig",
        makes |-> "server.cfg", err |-> "failed to generate config"],
       [progress |-> 875, op |-> "GenerateLaunchScript",
        makes |-> "launch script", err |-> "failed to create launch script"],
       [progress |-> 1000, op |-> "registry.Add", makes |-> "",
        err |-> "failed to register server"] >>

\* the eight steps of Install, in the order of the code
StepOrder ==
    <<"validateInputs", "createDirectories", "installBinary",
      "cloneServerData", "metadataManager.Save", "GenerateServerConfig",
      "GenerateLaunchScript", "registry.Add">>

StepNames == {StepOrder[i] : i \in 1..Len(StepOrder)}

CallOf(op, res) == [op |-> op, res |-> res]

Res(err) == IF err = Nil THEN "ok" ELSE "error"

\* a registry that holds one other server
OtherServer == [Name |-> "other", Port |-> 30120]
RegistryInit == [Servers |-> <<OtherServer>>, saved |-> <<OtherServer>>]

InstallIdle ==
    /\ inst = [pc |-> "idle", step |-> 0, n |-> 0, name |-> "", port |-> 0,
               source |-> <<>>, err |-> Nil]
    /\ reports = <<>>
    /\ calls = <<>>
    /\ site = [dirs |-> {}, bin |-> {}]
    /\ registry = RegistryInit
    /\ remote = [listing |-> {}, payload |-> {}, host |-> CHOOSE s \in Servers : TRUE]

\* a call Install(name, port) for build 1, on a cache loaded from a
\* metadata.json that is empty or holds the build with one of the trees
InstallCall(names, ports, listings, payloads, hosts, cached) ==
    /\ \E name \in names, port \in ports :
          inst = [pc |-> "start", step |-> 0, n |-> 1, name |-> name,
                  port |-> port, source |-> <<>>, err |-> Nil]
    /\ reports = <<>>
    /\ calls = <<>>
    /\ site = [dirs |-> {}, bin |-> {}]
    /\ registry = RegistryInit
    /\ \E l \in listings, p \in payloads, h \in hosts :
          remote = [listing |-> l, payload |-> p, host |-> h]
    /\ maxBuilds \in 1..MaxK
    /\ \E rows \in LoadedRows, tree \in cached :
          /\ Len(rows) <= 1
          /\ rows = <<>> => tree = FlatTree(1)
          /\ cache = [loadMetadata(rows) EXCEPT
                         !.dirs = [n \in BuildNumbers |->
                                      IF n \in Numbers(rows)
                                          THEN Extracted(tree) ELSE NoDir]]
    /\ now = 1
    /\ faults = MaxFaults
    /\ ret = NoCall

\* a valid call, the build listed, a plain archive, any artifact host
InstallInit ==
    InstallCall({"srv"}, {30120}, {{1}}, {FlatTree(1)}, Servers, {FlatTree(1)})

\* any call, the build listed or not, any archive content, an artifact host
\* that serves the archive on one connection
InstallStepsInit ==
    InstallCall({"", "srv", "other"}, {30120, 30121}, {{1, 2}, {2}},
                PayloadTrees(1),
                {s \in Servers : ~s.ranges /\ s.mode = "strict"},
                PayloadTrees(1))

Return(e) == [inst EXCEPT !.pc = "done", !.err = e]

\* Install, steps 1 and 2 and the report of step 3: validation and the
\* directories
Install ==
    /\ inst.pc = "start"
    /\ \E writable \in BOOLEAN, made \in BOOLEAN :
          LET verr == validateInputs(inst.name, registry, writable) IN
          IF verr # Nil
              THEN /\ made
                   /\ reports' = reports \o <<0>>
                   /\ calls' = Append(calls, CallOf("validateInputs", "error"))
                   /\ inst' = Return(verr)
                   /\ site' = site
          ELSE IF ~made
              THEN /\ reports' = reports \o <<0, 140>>
                   /\ calls' = calls \o <<CallOf("validateInputs", "ok"),
                                          CallOf("createDirectories", "error")>>
                   /\ inst' = Return(<<"failed to create directories",
                                       "mkdir failed">>)
                   /\ site' = site
          ELSE /\ reports' = reports \o <<0, 140, 280>>
               /\ calls' = calls \o <<CallOf("validateInputs", "ok"),
                                      CallOf("createDirectories", "ok")>>
               /\ inst' = [inst EXCEPT !.pc = "installBinary"]
               /\ site' = [site EXCEPT !.dirs = {"serverPath", "bin"}]
    /\ UNCHANGED <<extractVars, otherVars, cacheVars, faults, downloadVars, registry, remote>>

\* installBinary up to the call of Download: the build list, the cache
\* lookup, and on a hit the copy out of the cache
installBinary ==
    /\ inst.pc = "installBinary"
    /\ \E failed \in {"", "FetchBuilds", "copyFile"},
          fail \in FailPoints("Get") :
          LET r == Get(cache, inst.n, now, fail)
              copy == copyDirWalk(r.c.dirs[inst.n].tree)
              saved == IF fail = "none" THEN <<>>
                       ELSE <<CallOf("saveMetadata", "error")>>
          IN
          IF failed = "FetchBuilds" \/ ~FindBuild(remote.listing, inst.n)
              THEN /\ fail = "none"
                   /\ failed # "copyFile"
                   /\ reports' = reports \o <<300>>
                   /\ calls' = calls \o
                         <<CallOf("FetchBuilds",
                                   IF failed = "" THEN "ok" ELSE "error"),
                           CallOf("installBinary", "error")>>
                   /\ inst' = Return(<<"failed to install FXServer",
                                       IF failed = "" THEN "build not found"
                                       ELSE "failed to fetch builds">>)
                   /\ UNCHANGED <<cacheVars, faults, downloadVars, site>>
          ELSE /\ fail # "none" => r.c.saved # Metadata(r.c)
               /\ cache' = r.c
               /\ faults' = faults - Faulted(cache, r, fail)
               /\ ret' = Call("Get", inst.n, r, r.path)
               /\ UNCHANGED <<maxBuilds, now>>
               /\ IF r.err = ""
                      THEN /\ reports' = reports \o <<300, 350>>
                           /\ failed = "copyFile" => copy.err = Nil
                           /\ LET err == IF failed = "copyFile"
                                             THEN <<"write failed">>
                                         ELSE copy.err
                              IN  /\ calls' = calls \o
                                        <<CallOf("FetchBuilds", "ok")>> \o saved
                                        \o <<CallOf("cache.Get", "ok"),
                                             CallOf("copyDir", Res(err)),
                                             CallOf("installBinary", Res(err))>>
                                  /\ inst' = IF err # Nil
                                                 THEN Return(<<"failed to install FXServer">>
                                                             \o err)
                                             ELSE [inst EXCEPT !.pc = "tail",
                                                               !.step = 1]
                           /\ site' = [site EXCEPT !.bin =
                                          IF failed = "copyFile" THEN {}
                                          ELSE copy.tree]
                           /\ UNCHANGED downloadVars
                  ELSE /\ failed = ""
                       /\ reports' = reports \o <<300>>
                       /\ calls' = calls \o <<CallOf("FetchBuilds", "ok"),
                                              CallOf("cache.Get", "miss")>>
                       /\ inst' = [inst EXCEPT !.pc = "download"]
                       /\ site' = site
                       /\ \E n \in 0..MaxSize : resource' = Resource(n)
                       /\ server' = remote.host
                       /\ numChunks' = DefaultChunks
                       /\ dl' = [pc |-> "start", strategy |-> "", err |-> "",
                                 stop |-> FALSE, errChan |-> <<>>, body |-> <<>>,
                                 nilCallback |-> FALSE]
                       /\ chunks' = [i \in 0..(DefaultChunks - 1) |-> IdleChunk]
                       /\ files' = [dest |-> NoFile,
                                    parts |-> [i \in 0..(DefaultChunks - 1) |-> NoFile]]
                       /\ UNCHANGED <<progress, reporter, dcalls>>
    /\ UNCHANGED <<extractVars, otherVars, registry, remote>>

\* installBinary after Download has returned: the extraction, the copy to
\* the server's bin directory, and cache.Add, whose result is dropped; the
\* deferred os.RemoveAll(tmpDir) removes the downloaded files
installExtract ==
    /\ inst.pc = "download"
    /\ dl.pc = "done"
    /\ IF dl.err # ""
           THEN /\ inst' = Return(<<"failed to install FXServer",
                                    "failed to download">>)
                /\ calls' = calls \o <<CallOf("Download", "error"),
                                       CallOf("installBinary", "error")>>
                /\ UNCHANGED <<reports, cacheVars, faults, site>>
       ELSE \E failed \in {"", "Extract", "copyFile"},
               fail \in FailPoints("Add") :
               LET r == Add(cache, maxBuilds, inst.n, remote.payload, now, fail)
                   source == findBinaryDir(remote.payload)
               IN
               /\ reports' = Append(reports, 450)
               /\ IF failed = "Extract"
                      THEN /\ fail = "none"
                           /\ inst' = Return(<<"failed to install FXServer",
                                               "failed to extract">>)
                           /\ calls' = calls \o
                                 <<CallOf("Download", "ok"),
                                   CallOf("Extract", "error"),
                                   CallOf("installBinary", "error")>>
                           /\ UNCHANGED <<cacheVars, faults, site>>
                  ELSE IF failed = "copyFile"
                      THEN /\ fail = "none"
                           /\ inst' = [Return(<<"failed to install FXServer",
                                                "failed to copy files",
                                                "write failed">>)
                                          EXCEPT !.source = source]
                           /\ calls' = calls \o
                                 <<CallOf("Download", "ok"),
                                   CallOf("Extract", "ok"),
                                   CallOf("findBinaryDir", "ok"),
                                   CallOf("copyDirSkipBrokenSymlinks", "error"),
                                   CallOf("installBinary", "error")>>
                           /\ UNCHANGED <<cacheVars, faults, site>>
                  ELSE /\ fail # "none" => (r.err # "" \/ fail = "rename")
                       /\ cache' = r.c
                       /\ faults' = faults - Faulted(cache, r, fail)
                       /\ ret' = Call("Add", inst.n, r, 0)
                       /\ inst' = [inst EXCEPT !.pc = "tail", !.step = 1,
                                               !.source = source]
                       /\ site' = [site EXCEPT !.bin =
                                      copyDirSkipBrokenSymlinks(remote.payload,
                                                                source)]
                       /\ calls' = calls \o
                             <<CallOf("Download", "ok"),
                               CallOf("Extract", "ok"),
                               CallOf("findBinaryDir", "ok"),
                               CallOf("copyDirSkipBrokenSymlinks", "ok"),
                               CallOf("cache.Add",
                                       IF r.err = "" THEN "ok" ELSE "error"),
                               CallOf("installBinary", "ok")>>
                       /\ UNCHANGED <<maxBuilds, now>>
    /\ files' = [dest |-> NoFile, parts |-> [i \in ChunkIds |-> NoFile]]
    /\ UNCHANGED <<resource, server, numChunks, dl, chunks, progress, reporter,
                   dcalls>>
    /\ UNCHANGED <<extractVars, otherVars, registry, remote>>

\* Install, step 4: the report, then cloneServerData
InstallClone ==
    /\ inst.pc = "tail"
    /\ inst.step = 1
    /\ reports' = Append(reports, TailSteps[1].progress)
    /\ \E git \in {"cloned", "cloned, copy failed", "failed"},
          failAt \in 0..Len(BasicStructure) :
          LET r == cloneServerData(site.dirs, git, failAt) IN
          /\ git # "failed" => failAt = 0
          /\ site' = [site EXCEPT !.dirs = r.dirs]
          /\ calls' = calls \o
                (IF git = "failed"
                     THEN <<CallOf("git clone", "error"),
                            CallOf("createBasicStructure", Res(r.err))>>
                 ELSE <<CallOf("git clone", "ok")>>)
                \o <<CallOf("cloneServerData", Res(r.err))>>
          /\ inst' = IF r.err # Nil THEN Return(<<TailSteps[1].err>> \o r.err)
                     ELSE [inst EXCEPT !.step = 2]
    /\ UNCHANGED <<extractVars, otherVars, cacheVars, faults, downloadVars, registry, remote>>

\* Install, steps 5 to 8: the report of the step, then its operation; the
\* last one is Registry.Add of the server named and bound as Install was told
InstallStep ==
    /\ inst.pc = "tail"
    /\ inst.step > 1
    /\ reports' = Append(reports, TailSteps[inst.step].progress)
    /\ \E ok \in BOOLEAN :
          LET step == TailSteps[inst.step]
              r == RegistryAdd(registry,
                               [Name |-> inst.name, Port |-> inst.port], ~ok)
          IN
          IF inst.step = Len(TailSteps)
              THEN /\ registry' = r.reg
                   /\ site' = site
                   /\ calls' = Append(calls, CallOf(step.op, Res(r.err)))
                   /\ inst' = IF r.err # Nil THEN Return(<<step.err>> \o r.err)
                              ELSE Return(Nil)
          ELSE /\ registry' = registry
               /\ site' = IF ok THEN [site EXCEPT !.dirs = @ \cup {step.makes}]
                          ELSE site
               /\ calls' = Append(calls, CallOf(step.op,
                                                 IF ok THEN "ok" ELSE "error"))
               /\ inst' = IF ~ok THEN Return(<<step.err, "write failed">>)
                          ELSE [inst EXCEPT !.step = inst.step + 1]
    /\ UNCHANGED <<extractVars, otherVars, cacheVars, faults, downloadVars, remote>>

\* every tree over the names of NameOrder: a file and a dangling symlink
\* at the root, the directory alpine with any of three entries, and the
\* directory citizen
TreeNodes ==
    {Node(<<"FXServer">>, "file", 1), Node(<<"lib">>, "broken symlink", 0),
     Node(<<"alpine">>, "dir", 0), Node(<<"citizen">>, "dir", 0),
     Node(<<"alpine", "FXServer">>, "file", 1),
     Node(<<"alpine", "citizen">>, "file", 1),
     Node(<<"alpine", "lib">>, "symlink", 1)}

Trees ==
    {t \in SUBSET TreeNodes :
        \A f \in t : Len(f.name) > 1 =>
            \E d \in t : d.kind = "dir" /\ d.name = Front(f.name)}

\* installBinary between Extract and the copy, for any extracted tree
FindBinaryDirInit ==
    /\ inst = [pc |-> "extracted", step |-> 0, n |-> 1, name |-> "srv",
               port |-> 30120, source |-> <<>>, err |-> Nil]
    /\ reports = <<>>
    /\ calls = <<>>
    /\ site = [dirs |-> {"serverPath", "bin"}, bin |-> {}]
    /\ registry = RegistryInit
    /\ \E t \in Trees :
          remote = [listing |-> {1}, payload |-> t,
                    host |-> CHOOSE s \in Servers : TRUE]

\* sourcePath := findBinaryDir(extractPath)
ResolveBinaryDir ==
    /\ inst.pc = "extracted"
    /\ inst' = [inst EXCEPT !.pc = "resolved",
                            !.source = findBinaryDir(remote.payload)]
    /\ calls' = Append(calls, CallOf("findBinaryDir", "ok"))
    /\ UNCHANGED <<extractVars, otherVars, cacheVars, faults, downloadVars, reports, site,
                   registry, remote>>

InstallNext ==
    \/ Install
    \/ installBinary
    \/ installExtract
    \/ InstallClone
    \/ InstallStep
    \/ DownloadNext

\* Install with an artifact host that serves the archive on one connection
InstallStepsNext ==
    \/ Install
    \/ installBinary
    \/ installExtract
    \/ InstallClone
    \/ InstallStep
    \/ Download
    \/ DownloadFail
    \/ SequentialRead
    \/ SingleReturn
    \/ StreamingReturn
    \/ SequentialFail

(***************************************************************************)
(* Installer: claims                                                       *)
(***************************************************************************)
\* C10: the progress values onProgress receives during one Install call
\* never decrease, whether the build comes from the cache or is downloaded,
\* however the download's reporter interleaves with the installer's steps.
C10_ProgressMonotone ==
    inst.pc \notin {"idle", "done"} =>
        \A i \in 1..Len(reports), j \in 1..Len(reports) :
            i < j => Leq(reports[i], reports[j])

\* C11: every progress value Install reports lies in [0, 1], and while the
\* download runs the value 0.30 + downloaded/total * 0.15 is a number that
\* does not exceed 0.45, for every snapshot the Downloader delivers, the
\* streaming one with TotalBytes = 0 and the empty resource included.
C11_ProgressInUnitInterval ==
    /\ \A i \in 1..Len(reports) : Leq(0, reports[i]) /\ Leq(reports[i], 1000)
    /\ inst.pc = "download" =>
          \A i \in 1..Len(reports) : Leq(reports[i], 450)

Ran(op) == \E i \in 1..Len(calls) : calls[i].op = op

Did(op, res) == \E i \in 1..Len(calls) : calls[i] = CallOf(op, res)

Mentions(err, msg) == \E i \in 1..Len(err) : err[i] = msg

\* C12: when the listing was fetched and does not hold the requested build
\* number, Install returns an error that says "not found", and it has made
\* no cache lookup, no download, no extraction, no copy into bin/, no
\* cache Add and no registry Add.
C12_BuildNotFound ==
    (Did("FetchBuilds", "ok") /\ inst.n \notin remote.listing)
    => /\ inst.pc = "done"
       /\ Mentions(inst.err, "build not found")
       /\ \A op \in {"cache.Get", "Download", "Extract", "copyDir",
                      "copyDirSkipBrokenSymlinks", "cache.Add", "registry.Add"} :
             ~Ran(op)
       /\ ret = NoCall
       /\ dl.pc = "idle"
       /\ site.bin = {}
       /\ registry = RegistryInit

\* Install has returned for a build that the fetched listing does not hold
C12_Witness ==
    /\ inst.pc = "done"
    /\ Did("FetchBuilds", "ok")
    /\ inst.n \notin remote.listing
    /\ remote.listing # {}

\* the index of the first call of op in calls
IndexOf(op) == CHOOSE i \in 1..Len(calls) : calls[i].op = op

\* C13: when the build is listed and cache.Get finds it, Install never
\* calls Download, Extract or cache.Add; and when every step after the
\* lookup succeeds, the last progress value reported is 1.0 and
\* Registry.Add has received a Server with the Name and the Port that were
\* passed to Install.
C13_CacheHitPath ==
    Did("cache.Get", "ok") =>
        /\ inst.n \in remote.listing
        /\ ~Ran("Download") /\ ~Ran("Extract") /\ ~Ran("cache.Add")
        /\ dl.pc = "idle" /\ dcalls = <<>>
        /\ ret.op = "Get"
        /\ (inst.pc = "done"
               /\ \A i \in (IndexOf("cache.Get") + 1)..Len(calls) :
                     calls[i].op \in StepNames \cup {"copyDir"}
                         => calls[i].res = "ok")
            => /\ Last(reports) = 1000
               /\ Last(calls) = CallOf("registry.Add", "ok")
               /\ Last(registry.Servers) =
                     [Name |-> inst.name, Port |-> inst.port]
               /\ registry.saved = registry.Servers

\* Install has returned after a cache hit and five successful later steps,
\* for a port other than the default one
C13_Witness ==
    /\ inst.pc = "done"
    /\ Did("cache.Get", "ok")
    /\ inst.err = Nil
    /\ inst.port = 30121
    /\ Len(registry.Servers) = 2

IsStep(c) == c.op \in StepNames

\* the steps Install has run, in order
Steps == SelectSeq(calls, IsStep)

\* the message Install puts in front of the error of a step
Wrapper(op) ==
    IF op = "createDirectories" THEN "failed to create directories"
    ELSE IF op = "installBinary" THEN "failed to install FXServer"
    ELSE (CHOOSE t \in {TailSteps[i] : i \in 1..Len(TailSteps)} : t.op = op).err

\* C14: Install runs its steps in the fixed order validateInputs,
\* createDirectories, installBinary, cloneServerData, metadataManager.Save,
\* GenerateServerConfig, GenerateLaunchScript, Registry.Add; no step runs
\* twice or after a later one, and when a step returns an error Install
\* returns that error and no later step runs.
C14_StepOrder ==
    /\ Len(Steps) <= Len(StepOrder)
    /\ \A i \in 1..Len(Steps) : Steps[i].op = StepOrder[i]
    /\ \A i \in 1..(Len(Steps) - 1) : Steps[i].res = "ok"
    /\ (Steps # <<>> /\ Last(Steps).res = "error") =>
          /\ inst.pc = "done"
          /\ IF Last(Steps).op = "validateInputs"
                 THEN inst.err = validateInputs(inst.name, registry, FALSE)
             ELSE Len(inst.err) > 1 /\ inst.err[1] = Wrapper(Last(Steps).op)
    /\ inst.pc = "done" =>
          \/ Last(Steps).res = "error" /\ inst.err # Nil
          \/ Len(Steps) = Len(StepOrder) /\ inst.err = Nil

\* Install has returned the error of step 6, after a download in step 3
C14_Witness ==
    /\ inst.pc = "done"
    /\ Did("cache.Add", "ok")
    /\ Did("GenerateServerConfig", "error")
    /\ Len(Steps) = 6
    /\ inst.err[1] = "failed to generate config"

\* what steps 2 to 7 leave under the server path
Artefacts ==
    {"serverPath", "bin", "resources", "metadata.json", "server.cfg",
     "launch script"}

\* C15: Install returns nil only when Registry.Add has returned nil, with
\* the server in registry.json; when Registry.Add fails, Install returns an
\* error and nothing of steps 1 to 7 is undone: the server directory, its
\* bin/ tree and generated files stay, and so does the cache entry that
\* step 3 added.
C15_RegistryAddDecides ==
    /\ (inst.pc = "done" /\ inst.err = Nil) =>
          /\ Did("registry.Add", "ok")
          /\ \E i \in 1..Len(registry.saved) :
                registry.saved[i] = [Name |-> inst.name, Port |-> inst.port]
    /\ Did("registry.Add", "error") =>
          /\ inst.pc = "done"
          /\ Len(inst.err) > 1 /\ inst.err[1] = "failed to register server"
          /\ Artefacts \subseteq site.dirs
          /\ Did("copyDirSkipBrokenSymlinks", "ok") =>
                site.bin = copyDirSkipBrokenSymlinks(remote.payload, inst.source)
          /\ Did("copyDir", "ok") =>
                site.bin = copyDirWalk(cache.dirs[inst.n].tree).tree
          /\ Did("cache.Add", "ok") =>
                /\ Has(cache, inst.n)
                /\ ExtractedExists(cache, inst.n)
                /\ cache.dirs[inst.n].tree = remote.payload

\* Registry.Add has failed after a download whose cache.Add succeeded
C15_Witness ==
    /\ inst.pc = "done"
    /\ Did("registry.Add", "error")
    /\ Did("cache.Add", "ok")
    /\ Has(cache, inst.n)
    /\ site.bin # {}

BasicDirs == {BasicStructure[i] : i \in 1..Len(BasicStructure)}

\* C16 as stated: every failure of git clone in step 4 leads to the
\* creation of resources/, cache/ and logs/ under the server path, and
\* the step, and so Install, does not fail.
C16_GitFailureNeverFails ==
    Did("git clone", "error") =>
        /\ BasicDirs \subseteq site.dirs
        /\ Did("cloneServerData", "ok")
        /\ ~Mentions(inst.err, "failed to clone server-data")

\* C16, amended: when git clone fails in step 4, createBasicStructure runs
\* in its place; when its os.MkdirAll calls succeed, resources/, cache/ and
\* logs/ exist, the step returns nil and Install goes on with step 5; when
\* one of them fails, the step returns that error and Install returns
\* "failed to clone server-data" wrapping it.
C16_GitFailureFallsBack ==
    Did("git clone", "error") =>
        /\ Ran("createBasicStructure")
        /\ Did("createBasicStructure", "ok") =>
              /\ BasicDirs \subseteq site.dirs
              /\ Did("cloneServerData", "ok")
              /\ ~Mentions(inst.err, "failed to clone server-data")
              /\ inst.pc = "tail" => inst.step >= 2
              /\ inst.pc = "done" => Ran("metadataManager.Save")
        /\ Did("createBasicStructure", "error") =>
              /\ ~(BasicDirs \subseteq site.dirs)
              /\ Did("cloneServerData", "error")
              /\ inst.pc = "done"
              /\ inst.err = <<"failed to clone server-data", "mkdir failed">>

\* git clone failed and Install has returned nil all the same
C16_Witness ==
    /\ Did("git clone", "error")
    /\ Did("createBasicStructure", "ok")
    /\ inst.pc = "done"
    /\ inst.err = Nil

C18_CopiesSkipBrokenSymlinks ==
    \A op \in {"copyDir", "copyDirSkipBrokenSymlinks"} :
        (Ran(op) /\ ~Mentions(inst.err, "write failed")) =>
            /\ Did(op, "ok")
            /\ \A f \in site.bin : f.kind # "broken symlink"
            /\ LET from == IF op = "copyDir" THEN cache.dirs[inst.n].tree
                           ELSE Rel(remote.payload, inst.source)
               IN  \A f \in from : f.kind # "broken symlink" =>
                       \E g \in site.bin : g.name = f.name

\* C20: no failure inside the pipeline is swallowed: when an operation
\* Install runs has failed, cache.Add after a download and the metadata
\* save inside cache.Get included, Install returns an error.  (The failure
\* of git clone is replaced by createBasicStructure and is left out.)
C20_NoSwallowedFailure ==
    (inst.pc = "done" /\ inst.err = Nil) =>
        \A i \in 1..Len(calls) :
            calls[i].res = "error" => calls[i].op = "git clone"

\* C31: for one build, bin/ after an Install that hit the cache holds what
\* bin/ holds after the Install that missed the cache and filled it, also
\* for an archive with a single wrapper directory: the copy from the cache
\* leaves in bin/ what the copy from findBinaryDir of the extracted tree
\* left there.
C31_HitEqualsMiss ==
    (Did("cache.Get", "ok") /\ Did("copyDir", "ok")) =>
        LET extracted == cache.dirs[inst.n].tree IN
        site.bin = copyDirSkipBrokenSymlinks(extracted, findBinaryDir(extracted))

\* C36: progress 1.0 is delivered to onProgress only by an Install that then
\* returns success: an Install that has returned an error has reported no
\* progress of 1.0.
C36_FullProgressOnlyOnSuccess ==
    (inst.pc = "done" /\ inst.err # Nil) =>
        \A i \in 1..Len(reports) : reports[i] # 1000

(***************************************************************************)
(* Concurrent callers of one BinaryCache                                   *)
(*                                                                         *)
(* BinaryCache has the fields basePath, metadata and maxBuilds and no      *)
(* lock (binary.go:16-21).  Two goroutines that call Add on the same cache *)
(* run its statements interleaved: the append to metadata.Builds and the   *)
(* addition to metadata.TotalSize each read the field and write it back.   *)
(***************************************************************************)
NoTasks == [c0 |-> EmptyCache, t |-> <<>>]

Callers == 1..2

AddTask(n) == [pc |-> "files", n |-> n, builds |-> <<>>, total |-> 0]

\* two calls of Add are about to run on the cache as it was loaded
RaceInit ==
    /\ CacheInit
    /\ \E a, b \in BuildNumbers :
          tasks = [c0 |-> cache, t |-> <<AddTask(a), AddTask(b)>>]

RaceStep(i, pc, c) ==
    /\ cache' = c
    /\ tasks' = [tasks EXCEPT !.t[i].pc = pc]
    /\ UNCHANGED <<maxBuilds, now, faults, ret, runs, tmp>>
    /\ UNCHANGED <<extractVars, downloadVars, installVars>>

\* MkdirAll, copyFile and the move of the extracted tree
AddFiles ==
    \E i \in Callers :
        LET n == tasks.t[i].n
            c1 == IF cache.dirs[n].dir THEN cache
                  ELSE [cache EXCEPT !.dirs[n] = EmptyDir]
        IN  /\ tasks.t[i].pc = "files"
            /\ RaceStep(i, "append", MoveExtracted(c1, n, TreeOf(n), "none").c)

\* append(bc.metadata.Builds, metadata): the slice is read ...
AddReadBuilds ==
    \E i \in Callers :
        /\ tasks.t[i].pc = "append"
        /\ tasks' = [tasks EXCEPT !.t[i].pc = "store",
                                  !.t[i].builds = cache.Builds]
        /\ UNCHANGED <<cache, maxBuilds, now, faults, ret, runs, tmp>>
        /\ UNCHANGED <<extractVars, downloadVars, installVars>>

\* ... and the slice with the new row is assigned to the field
AddStoreBuilds ==
    \E i \in Callers :
        LET n == tasks.t[i].n
            cacheBuild == [Number |-> n, Size |-> ArchiveSize(n),
                           LastUsed |-> now]
        IN  /\ tasks.t[i].pc = "store"
            /\ RaceStep(i, "size",
                        [cache EXCEPT
                           !.Builds = Append(tasks.t[i].builds, cacheBuild)])

\* bc.metadata.TotalSize += size: the field is read ...
AddReadTotal ==
    \E i \in Callers :
        /\ tasks.t[i].pc = "size"
        /\ tasks' = [tasks EXCEPT !.t[i].pc = "sum",
                                  !.t[i].total = cache.TotalSize]
        /\ UNCHANGED <<cache, maxBuilds, now, faults, ret, runs, tmp>>
        /\ UNCHANGED <<extractVars, downloadVars, installVars>>

\* ... and the sum is written back
AddStoreTotal ==
    \E i \in Callers :
        /\ tasks.t[i].pc = "sum"
        /\ RaceStep(i, "limits",
                    [cache EXCEPT
                       !.TotalSize = tasks.t[i].total
                                     + ArchiveSize(tasks.t[i].n)])

AddEnforceLimits ==
    \E i \in Callers :
        /\ tasks.t[i].pc = "limits"
        /\ RaceStep(i, "save", enforceLimits(cache, maxBuilds, "none").c)

AddSave ==
    \E i \in Callers :
        /\ tasks.t[i].pc = "save"
        /\ RaceStep(i, "done", saveMetadata(cache, "none").c)

RaceNext ==
    \/ AddFiles
    \/ AddReadBuilds
    \/ AddStoreBuilds
    \/ AddReadTotal
    \/ AddStoreTotal
    \/ AddEnforceLimits
    \/ AddSave

\* the cache after the two calls have run one after the other
Serial(a, b) ==
    Add(Add(tasks.c0, maxBuilds, a, TreeOf(a), now, "none").c,
        maxBuilds, b, TreeOf(b), now, "none").c

\* C24: calls of BinaryCache operations that overlap exclude each other:
\* when two concurrent calls of Add have returned, the entries and the total
\* size are what the two calls, run one at a time in one of the two orders,
\* leave behind.
C24_CallsSerializable ==
    (\A i \in DOMAIN tasks.t : tasks.t[i].pc = "done") =>
        Metadata(cache) \in {Metadata(Serial(tasks.t[1].n, tasks.t[2].n)),
                             Metadata(Serial(tasks.t[2].n, tasks.t[1].n))}

(***************************************************************************)
(* Install runs that overlap                                               *)
(*                                                                         *)
(* installBinary, after a cache miss, works in the directory               *)
(* os.TempDir()/inkwash-download (metrics.go:457-463).  tmp is that        *)
(* directory: whether it exists, and its entries server.<ext> and          *)
(* extracted, each with the run that wrote it and the build it holds.      *)
(***************************************************************************)
Absent == [by |-> 0, n |-> 0]

NoTmp == [dir |-> FALSE, archive |-> Absent, extracted |-> Absent]

Runs == 1..2

Run(n) == [pc |-> "mkdir", n |-> n, bin |-> 0, err |-> ""]

\* two runs have missed the cache and are about to create the directory
OverlapInit ==
    /\ maxBuilds \in 1..MaxK
    /\ cache = EmptyCache
    /\ now = 1
    /\ ret = NoCall
    /\ \E a, b \in BuildNumbers : runs = <<Run(a), Run(b)>>
    /\ tmp = NoTmp

RunStep(i, pc, err, t) ==
    /\ runs' = [runs EXCEPT ![i].pc = pc, ![i].err = err]
    /\ tmp' = t
    /\ UNCHANGED <<cache, maxBuilds, now, faults, ret, tasks>>
    /\ UNCHANGED <<extractVars, downloadVars, installVars>>

\* os.MkdirAll(tmpDir, 0755)
RunMkdir ==
    \E i \in Runs :
        /\ runs[i].pc = "mkdir"
        /\ RunStep(i, "download", "", [tmp EXCEPT !.dir = TRUE])

\* Download(downloadURL, archivePath, ...): creates the directory of the
\* destination if it is missing and writes tmpDir/server.<ext>
RunDownload ==
    \E i \in Runs :
        /\ runs[i].pc = "download"
        /\ RunStep(i, "extract", "",
                   [tmp EXCEPT !.dir = TRUE,
                               !.archive = [by |-> i, n |-> runs[i].n]])

\* Extract(archivePath, extractPath): unpacks the file that is at
\* archivePath now into tmpDir/extracted
RunExtract ==
    \E i \in Runs :
        /\ runs[i].pc = "extract"
        /\ IF tmp.archive = Absent
               THEN RunStep(i, "cleanup", "failed to extract", tmp)
           ELSE RunStep(i, "copy", "",
                        [tmp EXCEPT !.extracted =
                                       [by |-> i, n |-> tmp.archive.n]])

\* copyDirSkipBrokenSymlinks(findBinaryDir(extractPath), binaryPath)
RunCopy ==
    \E i \in Runs :
        /\ runs[i].pc = "copy"
        /\ IF tmp.extracted = Absent
               THEN RunStep(i, "cleanup", "failed to copy files", tmp)
           ELSE /\ runs' = [runs EXCEPT ![i].pc = "add",
                                        ![i].bin = tmp.extracted.n]
                /\ UNCHANGED <<tmp, cache, maxBuilds, now, faults, ret, tasks>>
                /\ UNCHANGED <<extractVars, downloadVars, installVars>>

\* inst.cache.Add(*targetBuild, archivePath, extractPath), result dropped:
\* the archive is copied and the extracted tree is moved into the cache
RunAdd ==
    \E i \in Runs :
        LET n == runs[i].n
            c1 == IF cache.dirs[n].dir THEN cache
                  ELSE [cache EXCEPT !.dirs[n] = EmptyDir]
            r == IF tmp.archive = Absent
                     THEN Add(cache, maxBuilds, n, {}, now, "copyFile")
                 ELSE IF tmp.extracted = Absent
                     THEN Err(c1, "failed to move extracted files")
                 ELSE Add(cache, maxBuilds, n, TreeOf(tmp.extracted.n), now,
                          "none")
        IN  /\ runs[i].pc = "add"
            /\ runs' = [runs EXCEPT ![i].pc = "cleanup"]
            /\ cache' = r.c
            /\ tmp' = IF r.err = "" THEN [tmp EXCEPT !.extracted = Absent]
                      ELSE tmp
            /\ UNCHANGED <<maxBuilds, now, faults, ret, tasks>>
            /\ UNCHANGED <<extractVars, downloadVars, installVars>>

\* defer os.RemoveAll(tmpDir)
RunCleanup ==
    \E i \in Runs :
        /\ runs[i].pc = "cleanup"
        /\ RunStep(i, "done", runs[i].err, NoTmp)

OverlapNext ==
    \/ RunMkdir
    \/ RunDownload
    \/ RunExtract
    \/ RunCopy
    \/ RunAdd
    \/ RunCleanup

\* C25: an Install run that misses the cache works in a temp directory of
\* its own: a step of one run neither replaces nor removes the archive or
\* the extracted tree that the other run wrote, nor does its extraction or
\* its copy read them.
C25_RunsKeepApart ==
    [][\A i \in Runs :
          runs'[i] # runs[i] =>
              /\ tmp.archive.by \notin Runs \ {i} \/ tmp'.archive = tmp.archive
              /\ tmp.extracted.by \notin Runs \ {i}
                    \/ tmp'.extracted = tmp.extracted
              /\ runs[i].pc = "extract" => tmp.archive.by \notin Runs \ {i}
              /\ runs[i].pc = "copy" => tmp.extracted.by \notin Runs \ {i}]_vars

(***************************************************************************)
(* Specifications                                                          *)
(***************************************************************************)
ExtractIdle ==
    /\ archivePath = ".zip"
    /\ archive = <<>>
    /\ destPath = DestTX
    /\ fs = {}
    /\ wrote = <<>>
    /\ xi = 0
    /\ xpc = "idle"
    /\ xerr = ""

CacheIdle ==
    /\ maxBuilds = 1
    /\ cache = loadMetadata(<<>>)
    /\ now = 0
    /\ ret = NoCall

\* no concurrent callers
OthersIdle ==
    /\ tasks = NoTasks
    /\ runs = <<>>
    /\ tmp = NoTmp

InitExtract ==
    /\ ExtractInit /\ faults = 0
    /\ CacheIdle /\ DownloadIdle /\ InstallIdle /\ OthersIdle

\* the cache on a file system whose operations all succeed
InitCache ==
    /\ CacheInit /\ faults = 0
    /\ ExtractIdle /\ DownloadIdle /\ InstallIdle /\ OthersIdle

\* the cache on a file system where up to MaxFaults operations fail
InitCacheIO ==
    /\ CacheInit /\ faults = MaxFaults
    /\ ExtractIdle /\ DownloadIdle /\ InstallIdle /\ OthersIdle

\* a full cache with the default limit, on a file system that works
InitEviction ==
    /\ EvictionInit /\ faults = 0
    /\ ExtractIdle /\ DownloadIdle /\ InstallIdle /\ OthersIdle

\* two overlapping calls of Add, on a file system whose operations succeed
InitCacheRace ==
    /\ RaceInit /\ faults = 0 /\ runs = <<>> /\ tmp = NoTmp
    /\ ExtractIdle /\ DownloadIdle /\ InstallIdle

\* two overlapping Install runs that both miss the cache
InitOverlap ==
    /\ OverlapInit /\ faults = 0 /\ tasks = NoTasks
    /\ ExtractIdle /\ DownloadIdle /\ InstallIdle

\* one Download, on a network where up to MaxFaults reads fail
InitDownload ==
    /\ DownloadInit /\ faults = MaxFaults
    /\ ExtractIdle /\ CacheIdle /\ InstallIdle /\ OthersIdle

\* one Install, with up to MaxFaults failing reads or cache I/O operations
InitInstall == InstallInit /\ ExtractIdle /\ DownloadIdle /\ OthersIdle

\* one Install of any arguments, the archive served on one connection
InitInstallSteps ==
    InstallStepsInit /\ ExtractIdle /\ DownloadIdle /\ OthersIdle

\* findBinaryDir on every extracted tree
InitFindBinaryDir ==
    /\ FindBinaryDirInit /\ faults = 0
    /\ ExtractIdle /\ CacheIdle /\ DownloadIdle /\ OthersIdle

SpecExtract == InitExtract /\ [][ExtractNext]_vars

SpecCache == InitCache /\ [][CacheNext]_vars

SpecCacheIO == InitCacheIO /\ [][CacheNext]_vars

SpecEviction == InitEviction /\ [][EvictionNext]_vars

SpecCacheRace == InitCacheRace /\ [][RaceNext]_vars

SpecOverlap == InitOverlap /\ [][OverlapNext]_vars

SpecDownload == InitDownload /\ [][DownloadNext]_vars

\* the download with every task scheduled: a step that stays possible is
\* taken, and the select of the reporter, which picks at random among the
\* ready cases, takes the closed stop channel if it is ready again and again
SpecDownloadFair ==
    /\ InitDownload
    /\ [][DownloadNext]_vars
    /\ WF_vars(DownloadNext)
    /\ SF_vars(ReporterStop)

SpecInstall == InitInstall /\ [][InstallNext]_vars

SpecInstallSteps == InitInstallSteps /\ [][InstallStepsNext]_vars

SpecFindBinaryDir == InitFindBinaryDir /\ [][ResolveBinaryDir]_vars

Init == InitExtract
Next == ExtractNext
Spec == Init /\ [][Next]_vars

====
